---- MODULE Spec2Model ----
(***************************************************************************)
(* Model of the scanline polygon-to-grid engine of controlledburn          *)
(* (src/src/scanline_burn.cpp, analytical_coverage.h, dense_to_sparse.h).  *)
(*                                                                         *)
(* Coordinates are integers on a lattice in which one grid cell is a       *)
(* dx x dy square.  A coverage fraction (a float in the code) is kept as an *)
(* integer number of units of 1 / CovOne; CovOne is a multiple of          *)
(* 2 * dx * dy, so every fraction the code computes on lattice input is    *)
(* exact, and of the denominator of tol, so that there are weights         *)
(* strictly between 1 - tol and 1.                                         *)
(***************************************************************************)
EXTENDS Integers, Sequences, FiniteSets, TLC

\* ---- bounds of the model ----
NCol == 3
NRow == 2
MaxGeoms == 2

\* ---- grid scale (lattice units per cell) ----
dx == 4
dy == 4

\* finite stand-in for std::numeric_limits<double>::max() / lowest()
Inf == 1000

\* tol = 1e-6f as the fraction TolNum / TolDen
TolNum == 1
TolDen == 1000000

\* the weight 1.0 and the weight tol, in units of 1 / CovOne
CovOne == 2 * TolDen
Tol == (TolNum * CovOne) \div TolDen

Min(a, b) == IF a <= b THEN a ELSE b
Max(a, b) == IF a >= b THEN a ELSE b
Abs(a) == IF a < 0 THEN -a ELSE a

Coord(px, py) == [x |-> px, y |-> py]
Box(x0, y0, x1, y1) == [xmin |-> x0, ymin |-> y0, xmax |-> x1, ymax |-> y1]

\* ---------------------------------------------------------------------
\* Box primitives (exactextract::Box)
\* ---------------------------------------------------------------------
BoxContains(b, c) ==
    /\ c.x >= b.xmin /\ c.x <= b.xmax
    /\ c.y >= b.ymin /\ c.y <= b.ymax

BoxStrictlyContains(b, c) ==
    /\ c.x > b.xmin /\ c.x < b.xmax
    /\ c.y > b.ymin /\ c.y < b.ymax

BoxEmpty(b) == b.xmin >= b.xmax \/ b.ymin >= b.ymax

BoxIntersects(a, b) ==
    ~ (b.ymin > a.ymax \/ b.ymax < a.ymin \/ b.xmin > a.xmax \/ b.xmax < a.xmin)

BoxIntersection(a, b) ==
    Box(Max(a.xmin, b.xmin), Max(a.ymin, b.ymin),
        Min(a.xmax, b.xmax), Min(a.ymax, b.ymax))

BoxContainsBox(a, b) ==
    /\ b.xmin >= a.xmin /\ b.xmax <= a.xmax
    /\ b.ymin >= a.ymin /\ b.ymax <= a.ymax

BoxExpandToInclude(a, b) ==
    Box(Min(a.xmin, b.xmin), Min(a.ymin, b.ymin),
        Max(a.xmax, b.xmax), Max(a.ymax, b.ymax))

\* Box::side: corner points go to TOP / BOTTOM before LEFT / RIGHT
BoxSide(b, c) ==
    IF c.y = b.ymax THEN "TOP"
    ELSE IF c.y = b.ymin THEN "BOTTOM"
    ELSE IF c.x = b.xmin THEN "LEFT"
    ELSE IF c.x = b.xmax THEN "RIGHT"
    ELSE "NONE"

Clamp(v, lo, hi) == Max(lo, Min(v, hi))

Crossing(s, px, py) == [side |-> s, coord |-> Coord(px, py)]

\* Box::crossing: first intersection of the segment c1 -> c2 with the box
\* boundary, c2 outside the box.  side = "THROW" is the library's
\* std::runtime_error("Never get here").
BoxCrossing(b, c1, c2) ==
    IF c1.x = c2.x THEN
        IF c2.y >= b.ymax THEN Crossing("TOP", c1.x, b.ymax)
        ELSE IF c2.y <= b.ymin THEN Crossing("BOTTOM", c1.x, b.ymin)
        ELSE Crossing("THROW", c1.x, c1.y)
    ELSE IF c1.y = c2.y THEN
        IF c2.x >= b.xmax THEN Crossing("RIGHT", b.xmax, c1.y)
        ELSE IF c2.x <= b.xmin THEN Crossing("LEFT", b.xmin, c1.y)
        ELSE Crossing("THROW", c1.x, c1.y)
    ELSE
        LET my == Abs(c2.y - c1.y)
            mx == Abs(c2.x - c1.x)
            up == c2.y > c1.y
            right == c2.x > c1.x
            \* m * t and t / m for the slope m = my / mx
            MulM(t) == (my * t) \div mx
            DivM(t) == (mx * t) \div my
        IN  IF up THEN
                IF right THEN
                    LET y2 == c1.y + MulM(b.xmax - c1.x)
                    IN  IF y2 < b.ymax
                        THEN Crossing("RIGHT", b.xmax, Clamp(y2, b.ymin, b.ymax))
                        ELSE Crossing("TOP",
                                 Clamp(c1.x + DivM(b.ymax - c1.y), b.xmin, b.xmax),
                                 b.ymax)
                ELSE
                    LET y2 == c1.y + MulM(c1.x - b.xmin)
                    IN  IF y2 < b.ymax
                        THEN Crossing("LEFT", b.xmin, Clamp(y2, b.ymin, b.ymax))
                        ELSE Crossing("TOP",
                                 Clamp(c1.x - DivM(b.ymax - c1.y), b.xmin, b.xmax),
                                 b.ymax)
            ELSE
                IF right THEN
                    LET y2 == c1.y - MulM(b.xmax - c1.x)
                    IN  IF y2 > b.ymin
                        THEN Crossing("RIGHT", b.xmax, Clamp(y2, b.ymin, b.ymax))
                        ELSE Crossing("BOTTOM",
                                 Clamp(c1.x + DivM(c1.y - b.ymin), b.xmin, b.xmax),
                                 b.ymin)
                ELSE
                    LET y2 == c1.y - MulM(c1.x - b.xmin)
                    IN  IF y2 > b.ymin
                        THEN Crossing("LEFT", b.xmin, Clamp(y2, b.ymin, b.ymax))
                        ELSE Crossing("BOTTOM",
                                 Clamp(c1.x - DivM(c1.y - b.ymin), b.xmin, b.xmax),
                                 b.ymin)

\* perimeter_distance: arc length along the cell boundary from the
\* bottom-left corner, up the left side, along the top, down the right
\* side and back along the bottom.  -1 stands for the library's throw when
\* the point is not on the boundary.
PerimeterDistance(b, c) ==
    IF c.x = b.xmin THEN c.y - b.ymin
    ELSE IF c.y = b.ymax THEN (b.ymax - b.ymin) + c.x - b.xmin
    ELSE IF c.x = b.xmax THEN (b.xmax - b.xmin) + (b.ymax - b.ymin) + b.ymax - c.y
    ELSE IF c.y = b.ymin THEN 2 * (b.xmax - b.xmin) + (b.ymax - b.ymin) + b.xmax - c.x
    ELSE -1

\* ---------------------------------------------------------------------
\* Grid primitives (exactextract::Grid<bounded_extent> / <infinite_extent>)
\* A grid is its finite extent plus the numbers of rows and columns; the
\* infinite variant counts one padding row / column on each side.
\* ---------------------------------------------------------------------
Grid(ext, nr, nc) ==
    [xmin |-> ext.xmin, ymin |-> ext.ymin, xmax |-> ext.xmax, ymax |-> ext.ymax,
     rows |-> nr, cols |-> nc]

GridExtent(g) == Box(g.xmin, g.ymin, g.xmax, g.ymax)

\* Grid<bounded_extent>::get_column / get_row (argument already in range)
BoundedGetColumn(g, x) ==
    IF x = g.xmax THEN g.cols - 1
    ELSE Min((x - g.xmin) \div dx, g.cols - 1)

BoundedGetRow(g, y) ==
    IF y = g.ymin THEN g.rows - 1
    ELSE Min((g.ymax - y) \div dy, g.rows - 1)

\* Grid<infinite_extent>::get_column / get_row
get_column(g, x) ==
    IF x < g.xmin THEN 0
    ELSE IF x > g.xmax THEN g.cols - 1
    ELSE IF x = g.xmax THEN g.cols - 2
    ELSE Min(1 + ((x - g.xmin) \div dx), g.cols - 2)

get_row(g, y) ==
    IF y > g.ymax THEN 0
    ELSE IF y < g.ymin THEN g.rows - 1
    ELSE IF y = g.ymin THEN g.rows - 2
    ELSE Min(1 + ((g.ymax - y) \div dy), g.rows - 2)

\* grid_cell on the infinite grid: padding cells are half planes
grid_cell(g, row, col) ==
    LET x0 == IF col = 0 THEN -Inf
              ELSE IF col = g.cols - 1 THEN g.xmax
              ELSE g.xmin + (col - 1) * dx
        x1 == IF g.cols - col = 1 THEN Inf
              ELSE IF g.cols - col = 2 THEN g.xmax
              ELSE g.xmin + col * dx
        y1 == IF row = 0 THEN Inf
              ELSE IF row = g.rows - 1 THEN g.ymin
              ELSE g.ymax - (row - 1) * dy
        y0 == IF g.rows - row = 1 THEN -Inf
              ELSE IF g.rows - row = 2 THEN g.ymin
              ELSE g.ymax - row * dy
    IN  Box(x0, y0, x1, y1)

\* Grid<bounded_extent>::shrink_to_fit(b), b inside the extent
shrink_to_fit(g, b) ==
    LET col0 == BoundedGetColumn(g, b.xmin)
        row1 == BoundedGetRow(g, b.ymax)
        snapped_xmin == g.xmin + col0 * dx
        snapped_ymax == g.ymax - row1 * dy
        col1 == BoundedGetColumn(g, b.xmax)
        row0 == BoundedGetRow(g, b.ymin)
        nr0 == 1 + (row0 - row1)
        nc0 == 1 + (col1 - col0)
        num_rows == IF nr0 > 2 /\ snapped_ymax - (nr0 - 1) * dy <= b.ymin
                    THEN nr0 - 1 ELSE nr0
        num_cols == IF nc0 > 2 /\ snapped_xmin + (nc0 - 1) * dx >= b.xmax
                    THEN nc0 - 1 ELSE nc0
    IN  Grid(Box(snapped_xmin, snapped_ymax - num_rows * dy,
                 snapped_xmin + num_cols * dx, snapped_ymax),
             num_rows, num_cols)

\* make_infinite: the same extent with one padding cell all round
make_infinite(g) == [g EXCEPT !.rows = g.rows + 2, !.cols = g.cols + 2]

\* ---------------------------------------------------------------------
\* Areas (analytical_coverage.h)
\* ---------------------------------------------------------------------
RECURSIVE ShoelaceSum(_, _)
\* sum over i in 1 .. size-2 (0-based) of (ring[i].x - x0) * (ring[i-1].y - ring[i+1].y)
ShoelaceSum(ring, i) ==
    IF i > Len(ring) - 1 THEN 0
    ELSE (ring[i].x - ring[1].x) * (ring[i - 1].y - ring[i + 1].y)
         + ShoelaceSum(ring, i + 1)

\* polygon_signed_area, returned as twice the area (sum instead of sum / 2)
polygon_signed_area(ring) ==
    IF Len(ring) < 3 THEN 0 ELSE ShoelaceSum(ring, 2)

BoxArea(b) == (b.xmax - b.xmin) * (b.ymax - b.ymin)
BoxPerimeter(b) == 2 * ((b.xmax - b.xmin) + (b.ymax - b.ymin))

\* ---------------------------------------------------------------------
\* Lightweight traversal tracking (scanline_burn.cpp)
\* ---------------------------------------------------------------------
NoTraversal == [coords |-> <<>>, entry_side |-> "NONE", exit_side |-> "NONE"]

Front(q) == q[1]
Back(q) == q[Len(q)]

traversed(t) == t.entry_side # "NONE" /\ t.exit_side # "NONE"

is_closed_ring(t) == Len(t.coords) >= 3 /\ Front(t.coords) = Back(t.coords)

multiple_unique_coordinates(t) ==
    \E i \in 2 .. Len(t.coords) : t.coords[1] # t.coords[i]

point_location(b, c) ==
    IF BoxStrictlyContains(b, c) THEN "INSIDE"
    ELSE IF BoxContains(b, c) THEN "BOUNDARY"
    ELSE "OUTSIDE"

\* ---------------------------------------------------------------------
\* walk_ring, the walk (scanline_burn.cpp lines 179-265).  pos is 0-based as
\* in the code; last_exit is <<>> (nullptr) or <<coordinate>>.
\* ---------------------------------------------------------------------
RECURSIVE InnerLoopConsuming(_, _, _)
\* the inner loop with the target coordinate consumed when a crossing is
\* computed
InnerLoopConsuming(coords, box, st) ==
    IF st.pos >= Len(coords) THEN st
    ELSE
        LET next == IF st.last_exit # <<>> THEN st.last_exit[1] ELSE coords[st.pos + 1]
            consumed == IF st.last_exit # <<>>
                        THEN [st EXCEPT !.last_exit = <<>>]
                        ELSE [st EXCEPT !.pos = @ + 1]
        IN  IF st.trav.coords = <<>> THEN
                InnerLoopConsuming(coords, box,
                    [consumed EXCEPT !.trav = [coords |-> <<next>>,
                                               entry_side |-> BoxSide(box, next),
                                               exit_side |-> "NONE"]])
            ELSE IF point_location(box, next) # "OUTSIDE" THEN
                InnerLoopConsuming(coords, box,
                    [consumed EXCEPT !.trav.coords = Append(@, next)])
            ELSE
                LET x == BoxCrossing(box, coords[st.pos], next)
                IN  IF x.side = "THROW" THEN [st EXCEPT !.threw = TRUE]
                    ELSE [consumed EXCEPT !.trav.coords = Append(@, x.coord),
                                          !.trav.exit_side = x.side,
                                          !.last_exit = IF x.coord # next
                                                        THEN <<x.coord>> ELSE @]

\* the start of the crossing taken from the traversal, whose last coordinate
\* may be the interpolated entry point
CrossingStartFromTraversal(coords, st) == Back(st.trav.coords)
\* lines 198 and 216-218: the start point handed to Box::crossing:
\* prev_original when pos > 0, the last coordinate of the traversal otherwise
CrossingStart(coords, st) ==
    IF st.pos > 0 THEN coords[st.pos] ELSE Back(st.trav.coords)

RECURSIVE InnerLoop(_, _, _)
\* the inner while loop of one cell visit: state = [trav, pos, last_exit,
\* threw]; st is the value of the argument, taken once
InnerLoop(coords, box, state) ==
  CHOOSE result \in {
    IF st.pos >= Len(coords) THEN st
    ELSE
        LET next == IF st.last_exit # <<>> THEN st.last_exit[1] ELSE coords[st.pos + 1]
            consumed == IF st.last_exit # <<>>
                        THEN [st EXCEPT !.last_exit = <<>>]
                        ELSE [st EXCEPT !.pos = @ + 1]
        IN  IF st.trav.coords = <<>> THEN
                InnerLoop(coords, box,
                    [consumed EXCEPT !.trav = [coords |-> <<next>>,
                                               entry_side |-> BoxSide(box, next),
                                               exit_side |-> "NONE"]])
            ELSE IF point_location(box, next) # "OUTSIDE" THEN
                InnerLoop(coords, box,
                    [consumed EXCEPT !.trav.coords = Append(@, next)])
            ELSE
                LET x == BoxCrossing(box, CrossingStart(coords, st), next)
                IN  IF x.side = "THROW" THEN [st EXCEPT !.threw = TRUE]
                    ELSE [st EXCEPT !.trav.coords = Append(@, x.coord),
                                    !.trav.exit_side = x.side,
                                    !.last_exit = IF x.coord # next
                                                  THEN <<x.coord>> ELSE @]
    : st \in {state} } : TRUE

\* Force exit if stuck on boundary (lines 232-238)
ForceExit(box, trav) ==
    IF trav.exit_side = "NONE" /\ trav.coords # <<>>
       /\ point_location(box, Back(trav.coords)) = "BOUNDARY"
    THEN [trav EXCEPT !.exit_side = BoxSide(box, Back(trav.coords))]
    ELSE trav

\* cells.emplace / traversals.push_back on the std::map keyed by (row, col)
AddTraversal(cells, key, trav) ==
    IF key \in DOMAIN cells
    THEN [cells EXCEPT ![key] = Append(@, trav)]
    ELSE cells @@ (key :> <<trav>>)

\* the walk state at the top of the outer loop
StartWalk(g, coords) ==
    [coords |-> coords, pos |-> 0,
     row |-> get_row(g, Front(coords).y),
     col |-> get_column(g, Front(coords).x),
     last_exit |-> <<>>, cells |-> <<>>, threw |-> FALSE]

\* one cell visit that leaves an incomplete initial traversal as it is, with
\* nothing pushed back for reprocessing
WalkStepFNoReprocess(g, w) ==
    LET box == grid_cell(g, w.row, w.col)
        r == InnerLoop(w.coords, box,
                 [trav |-> NoTraversal, pos |-> w.pos,
                  last_exit |-> w.last_exit, threw |-> FALSE])
        trav == ForceExit(box, r.trav)
    IN  IF r.threw THEN [w EXCEPT !.threw = TRUE]
        ELSE [w EXCEPT
                !.pos = r.pos,
                !.last_exit = r.last_exit,
                !.cells = AddTraversal(@, <<w.row, w.col>>, trav),
                !.row = IF trav.exit_side = "TOP" THEN @ - 1
                        ELSE IF trav.exit_side = "BOTTOM" THEN @ + 1 ELSE @,
                !.col = IF trav.exit_side = "LEFT" THEN @ - 1
                        ELSE IF trav.exit_side = "RIGHT" THEN @ + 1 ELSE @]

\* one cell visit whose move takes the row index as growing upward: row++ on
\* an exit through the top, row-- on an exit through the bottom
WalkStepFRowsUpward(g, w) ==
    LET box == grid_cell(g, w.row, w.col)
        r == InnerLoop(w.coords, box,
                 [trav |-> NoTraversal, pos |-> w.pos,
                  last_exit |-> w.last_exit, threw |-> FALSE])
        trav == ForceExit(box, r.trav)
        exited == trav.exit_side # "NONE"
        incomplete == exited /\ trav.entry_side = "NONE"
    IN  IF r.threw THEN [w EXCEPT !.threw = TRUE]
        ELSE [w EXCEPT
                !.coords = IF incomplete THEN @ \o trav.coords ELSE @,
                !.pos = r.pos,
                !.last_exit = r.last_exit,
                !.cells = AddTraversal(@, <<w.row, w.col>>, trav),
                !.row = IF trav.exit_side = "TOP" THEN @ + 1
                        ELSE IF trav.exit_side = "BOTTOM" THEN @ - 1 ELSE @,
                !.col = IF trav.exit_side = "LEFT" THEN @ - 1
                        ELSE IF trav.exit_side = "RIGHT" THEN @ + 1 ELSE @]

\* one iteration of the outer while loop: one cell visit; r is the outcome of
\* the inner loop and trav its traversal after the forced exit, each taken once
WalkStepF(g, w) ==
  CHOOSE result \in {
    LET exited == trav.exit_side # "NONE"
        incomplete == exited /\ trav.entry_side = "NONE"
    IN  IF r.threw THEN [w EXCEPT !.threw = TRUE]
        ELSE [w EXCEPT
                !.coords = IF incomplete THEN @ \o trav.coords ELSE @,
                !.pos = r.pos,
                !.last_exit = r.last_exit,
                !.cells = AddTraversal(@, <<w.row, w.col>>, trav),
                !.row = IF trav.exit_side = "TOP" THEN @ - 1
                        ELSE IF trav.exit_side = "BOTTOM" THEN @ + 1 ELSE @,
                !.col = IF trav.exit_side = "LEFT" THEN @ - 1
                        ELSE IF trav.exit_side = "RIGHT" THEN @ + 1 ELSE @]
    : <<r, trav>> \in
        { <<q, ForceExit(grid_cell(g, w.row, w.col), q.trav)>> :
            q \in { InnerLoop(w.coords, grid_cell(g, w.row, w.col),
                        [trav |-> NoTraversal, pos |-> w.pos,
                         last_exit |-> w.last_exit, threw |-> FALSE]) } } } : TRUE

WalkRunning(w) == ~ w.threw /\ w.pos < Len(w.coords)

RECURSIVE WalkAll(_, _)
\* the outer while loop run to its end
WalkAll(g, w) == IF WalkRunning(w) THEN WalkAll(g, WalkStepF(g, w)) ELSE w

\* ---------------------------------------------------------------------
\* Coverage of one cell
\* ---------------------------------------------------------------------
\* the fraction |area| / cell_area in units of 1 / CovOne (area2 = 2 * area)
Frac(area2, box) == (Abs(area2) * CovOne) \div (2 * BoxArea(box))

RECURSIVE SortByDist(_, _)
\* the indices S in increasing d[i] (std::sort on TaggedCorner.dist)
SortByDist(S, d) ==
    IF S = {} THEN <<>>
    ELSE LET m == CHOOSE i \in S : \A j \in S : d[i] < d[j] \/ (d[i] = d[j] /\ i <= j)
         IN  <<m>> \o SortByDist(S \ {m}, d)

CornerCoord(box) ==
    << Coord(box.xmin, box.ymin), Coord(box.xmin, box.ymax),
       Coord(box.xmax, box.ymax), Coord(box.xmax, box.ymin) >>

CornerPd(box) ==
    LET h == box.ymax - box.ymin
        w == box.xmax - box.xmin
    IN  << 0, h, h + w, 2 * h + w >>

\* the fraction closed along the arc from the exit on to the entry in the
\* direction of growing perimeter distance
CoveredFractionOtherArc(box, coords) ==
    IF BoxArea(box) <= 0 \/ Len(coords) < 2 THEN 0
    ELSE
        LET perim == BoxPerimeter(box)
            exit_pd == PerimeterDistance(box, Back(coords))
            entry_pd == PerimeterDistance(box, Front(coords))
        IN  IF exit_pd = entry_pd THEN
                LET poly == IF Front(coords) = Back(coords)
                            THEN coords ELSE Append(coords, Front(coords))
                IN  Frac(polygon_signed_area(poly), box)
            ELSE
                LET arc == IF entry_pd > exit_pd
                           THEN entry_pd - exit_pd
                           ELSE perim - exit_pd + entry_pd
                    cpd == CornerPd(box)
                    from_exit == [i \in 1 .. 4 |->
                                    IF cpd[i] - exit_pd < 0
                                    THEN cpd[i] - exit_pd + perim
                                    ELSE cpd[i] - exit_pd]
                    in_arc == {i \in 1 .. 4 : from_exit[i] > 0 /\ from_exit[i] < arc}
                    order == SortByDist(in_arc, from_exit)
                    corners == [k \in 1 .. Len(order) |-> CornerCoord(box)[order[k]]]
                    polygon == (coords \o corners) \o <<Front(coords)>>
                IN  Frac(polygon_signed_area(polygon), box)

\* analytical_covered_fraction (analytical_coverage.h lines 58-151); the
\* 1e-12 comparison slack is below the lattice resolution
analytical_covered_fraction(box, coords) ==
    IF BoxArea(box) <= 0 \/ Len(coords) < 2 THEN 0
    ELSE
        LET perim == BoxPerimeter(box)
            exit_pd == PerimeterDistance(box, Back(coords))
            entry_pd == PerimeterDistance(box, Front(coords))
        IN  IF exit_pd = entry_pd THEN
                LET poly == IF Front(coords) = Back(coords)
                            THEN coords ELSE Append(coords, Front(coords))
                IN  Frac(polygon_signed_area(poly), box)
            ELSE
                LET arc == IF exit_pd > entry_pd
                           THEN exit_pd - entry_pd
                           ELSE perim - entry_pd + exit_pd
                    cpd == CornerPd(box)
                    cw_from_exit == [i \in 1 .. 4 |->
                                       IF exit_pd - cpd[i] < 0
                                       THEN exit_pd - cpd[i] + perim
                                       ELSE exit_pd - cpd[i]]
                    in_arc == {i \in 1 .. 4 :
                                 cw_from_exit[i] > 0 /\ cw_from_exit[i] < arc}
                    order == SortByDist(in_arc, cw_from_exit)
                    corners == [k \in 1 .. Len(order) |-> CornerCoord(box)[order[k]]]
                    polygon == (coords \o corners) \o <<Front(coords)>>
                IN  Frac(polygon_signed_area(polygon), box)

\* closed_ring_covered_fraction (analytical_coverage.h lines 154-161)
closed_ring_covered_fraction(box, ring_coords) ==
    IF BoxArea(box) <= 0 THEN 0
    ELSE Frac(polygon_signed_area(ring_coords), box)

\* exactextract::left_hand_area: chain the traversals along the cell
\* perimeter, from each exit backwards to the nearest unused entry, with the
\* four corners as one-point chains; twice the summed ring areas.
perimeter_distance_ccw(m1, m2, perim) ==
    IF m2 <= m1 THEN m1 - m2 ELSE perim + m1 - m2

next_chain(chains, visited, cur, kill, perim) ==
    LET cand == {i \in 1 .. Len(chains) : i \notin visited \/ i = kill}
        dist == [i \in 1 .. Len(chains) |->
                    perimeter_distance_ccw(chains[cur].stop, chains[i].start, perim)]
    IN  CHOOSE i \in cand :
            \A j \in cand : dist[i] < dist[j] \/ (dist[i] = dist[j] /\ i <= j)

RECURSIVE ChainRing(_, _, _, _, _, _)
\* the do-while that follows one chain of traversals round the cell
ChainRing(chains, visited, cur, first, acc, perim) ==
    LET vis == visited \cup {cur}
        coords == acc \o chains[cur].coordinates
        nxt == next_chain(chains, vis, cur, first, perim)
    IN  IF nxt = first
        THEN [visited |-> vis, coords |-> coords]
        ELSE ChainRing(chains, vis, nxt, first, coords, perim)

RECURSIVE ChainSum(_, _, _, _)
ChainSum(chains, visited, i, perim) ==
    IF i > Len(chains) THEN 0
    ELSE IF i \in visited \/ Len(chains[i].coordinates) = 1
         THEN ChainSum(chains, visited, i + 1, perim)
         ELSE LET r == ChainRing(chains, visited, i, i, <<>>, perim)
                  ring == Append(r.coords, Front(r.coords))
              IN  Abs(polygon_signed_area(ring))
                  + ChainSum(chains, r.visited, i + 1, perim)

left_hand_area(box, coord_lists) ==
    LET cc == CornerCoord(box)
        cpd == CornerPd(box)
        n == Len(coord_lists)
        chains == [i \in 1 .. n + 4 |->
                     IF i <= n
                     THEN [start |-> PerimeterDistance(box, Front(coord_lists[i])),
                           stop |-> PerimeterDistance(box, Back(coord_lists[i])),
                           coordinates |-> coord_lists[i]]
                     ELSE [start |-> cpd[i - n], stop |-> cpd[i - n],
                           coordinates |-> <<cc[i - n]>>]]
    IN  ChainSum(chains, {}, 1, BoxPerimeter(box))

\* ---------------------------------------------------------------------
\* walk_ring, per-cell aggregation (scanline_burn.cpp lines 269-382)
\* ---------------------------------------------------------------------
KeyLess(a, b) == a[1] < b[1] \/ (a[1] = b[1] /\ a[2] < b[2])

RECURSIVE SortedKeys(_)
\* iteration order of the std::map<CellKey, CellRecord>
SortedKeys(S) ==
    IF S = {} THEN <<>>
    ELSE LET m == CHOOSE k \in S : \A j \in S : k = j \/ KeyLess(k, j)
         IN  <<m>> \o SortedKeys(S \ {m})

HasCol(row_vec, full_col) == \E i \in 1 .. Len(row_vec) : row_vec[i].col = full_col

\* find_or_create (lines 350-356): the record of full_col, appended if absent
find_or_create(row_vec, full_col) ==
    IF HasCol(row_vec, full_col) THEN row_vec
    ELSE Append(row_vec, [col |-> full_col, coverage |-> 0, winding_delta |-> 0])

RecIndex(row_vec, full_col) ==
    CHOOSE i \in 1 .. Len(row_vec) :
        /\ row_vec[i].col = full_col
        /\ \A j \in 1 .. i - 1 : row_vec[j].col # full_col

\* valid traversals of a cell (lines 302-310)
IsValidTraversal(t) ==
    \/ traversed(t) /\ multiple_unique_coordinates(t)
    \/ t.entry_side = "NONE" /\ is_closed_ring(t)

\* coverage fraction of an in-grid cell (lines 317-337)
CellFraction(box, valid) ==
    IF Len(valid) = 1 /\ valid[1].entry_side = "NONE" /\ is_closed_ring(valid[1])
    THEN closed_ring_covered_fraction(box, valid[1].coords)
    ELSE IF Len(valid) = 1
    THEN analytical_covered_fraction(box, valid[1].coords)
    ELSE IF BoxArea(box) > 0
    THEN Frac(left_hand_area(box, [i \in 1 .. Len(valid) |-> valid[i].coords]), box)
    ELSE 0

\* winding delta of one valid traversal (lines 365-377); 0 when it adds none
TraversalCrosses(box, t) ==
    LET entry_y2 == 2 * Front(t.coords).y
        exit_y2 == 2 * Back(t.coords).y
        y_mid2 == box.ymin + box.ymax
    IN  /\ traversed(t)
        /\ Len(t.coords) >= 2
        /\ \/ entry_y2 > y_mid2 /\ exit_y2 < y_mid2
           \/ entry_y2 < y_mid2 /\ exit_y2 > y_mid2

\* the delta without the sign of the ring
TraversalDeltaAnyRing(box, t, winding_factor) ==
    IF 2 * Front(t.coords).y > box.ymin + box.ymax THEN -1 ELSE 1

\* lines 376-377: the delta of a traversal that crosses
TraversalDelta(box, t, winding_factor) ==
    (IF 2 * Front(t.coords).y > box.ymin + box.ymax THEN -1 ELSE 1) * winding_factor

RECURSIVE WindingFold(_, _, _, _, _, _)
\* the loop over valid traversals that adds winding deltas (lines 364-381)
WindingFold(row_vec, box, valid, i, full_col, winding_factor) ==
    IF i > Len(valid) THEN row_vec
    ELSE IF ~ TraversalCrosses(box, valid[i])
         THEN WindingFold(row_vec, box, valid, i + 1, full_col, winding_factor)
         ELSE LET rv == find_or_create(row_vec, full_col)
                  k == RecIndex(rv, full_col)
              IN  WindingFold(
                      [rv EXCEPT ![k].winding_delta =
                                    @ + TraversalDelta(box, valid[i], winding_factor)],
                      box, valid, i + 1, full_col, winding_factor)

\* the loop body with a padding column folded into the nearest column of the
\* subgrid in place of a virtual column
AggregateCellClamped(row_data, g, key, travs, is_exterior, sub_rows, sub_cols, col_off) ==
    LET r == key[1]
        c == key[2]
        sub_r == r - 1
        full_col == IF c < 1 THEN col_off
                    ELSE IF c - 1 >= sub_cols THEN col_off + sub_cols - 1
                    ELSE col_off + (c - 1)
        box == grid_cell(g, r, c)
        valid == SelectSeq(travs, IsValidTraversal)
        frac == IF c >= 1 /\ c - 1 < sub_cols THEN CellFraction(box, valid) ELSE 0
        row_vec == row_data[sub_r + 1]
        rv1 == IF frac # 0
               THEN LET rv == find_or_create(row_vec, full_col)
                    IN  [rv EXCEPT ![RecIndex(rv, full_col)].coverage =
                                      @ + (IF is_exterior THEN 1 ELSE -1) * frac]
               ELSE row_vec
    IN  IF r < 1 \/ sub_r >= sub_rows \/ valid = <<>> THEN row_data
        ELSE [row_data EXCEPT ![sub_r + 1] =
                 WindingFold(rv1, box, valid, 1, full_col, IF is_exterior THEN 1 ELSE -1)]

\* the loop body for one cell of the map (lines 270-381)
AggregateCell(row_data, g, key, travs, is_exterior, sub_rows, sub_cols, col_off) ==
    LET r == key[1]
        c == key[2]
        sub_r == r - 1
        in_grid_cols == c >= 1 /\ c - 1 < sub_cols
        full_col == IF c < 1 THEN col_off - 1
                    ELSE IF c - 1 >= sub_cols THEN col_off + sub_cols
                    ELSE col_off + (c - 1)
        box == grid_cell(g, r, c)
        valid == SelectSeq(travs, IsValidTraversal)
        frac == IF in_grid_cols THEN CellFraction(box, valid) ELSE 0
        coverage_factor == IF is_exterior THEN 1 ELSE -1
        winding_factor == IF is_exterior THEN 1 ELSE -1
        row_vec == row_data[sub_r + 1]
        rv1 == IF frac # 0
               THEN LET rv == find_or_create(row_vec, full_col)
                    IN  [rv EXCEPT ![RecIndex(rv, full_col)].coverage =
                                      @ + coverage_factor * frac]
               ELSE row_vec
    IN  IF r < 1 \/ sub_r >= sub_rows \/ valid = <<>> THEN row_data
        ELSE [row_data EXCEPT ![sub_r + 1] =
                 WindingFold(rv1, box, valid, 1, full_col, winding_factor)]

RECURSIVE AggregateCells(_, _, _, _, _, _, _, _, _)
AggregateCells(row_data, g, cells, keys, i, is_exterior, sub_rows, sub_cols, col_off) ==
    IF i > Len(keys) THEN row_data
    ELSE AggregateCells(
             AggregateCell(row_data, g, keys[i], cells[keys[i]],
                           is_exterior, sub_rows, sub_cols, col_off),
             g, cells, keys, i + 1, is_exterior, sub_rows, sub_cols, col_off)

\* a variant that leaves the order of the coordinates as it is
ReverseNot(q) == q
\* std::reverse (lines 152-154)
RECURSIVE Reverse(_)
Reverse(q) == IF q = <<>> THEN <<>> ELSE Append(Reverse(Tail(q)), Head(q))

\* walk_ring (lines 137-383): the row table after the ring, or a throw
walk_ring(coords, is_ccw, is_exterior, g, row_data, sub_rows, sub_cols, col_off) ==
    IF Len(coords) < 4 THEN [row_data |-> row_data, threw |-> FALSE]
    ELSE
        LET cs == IF is_ccw THEN coords ELSE Reverse(coords)
            w == WalkAll(g, StartWalk(g, cs))
        IN  IF w.threw THEN [row_data |-> row_data, threw |-> TRUE]
            ELSE [row_data |->
                    AggregateCells(row_data, g, w.cells, SortedKeys(DOMAIN w.cells), 1,
                                   is_exterior, sub_rows, sub_cols, col_off),
                  threw |-> FALSE]

\* ---------------------------------------------------------------------
\* process_geometry, one POLYGON (scanline_burn.cpp lines 414-516)
\* ---------------------------------------------------------------------
RECURSIVE SeqMin(_, _)
SeqMin(q, i) == IF i = Len(q) THEN q[i] ELSE Min(q[i], SeqMin(q, i + 1))
RECURSIVE SeqMax(_, _)
SeqMax(q, i) == IF i = Len(q) THEN q[i] ELSE Max(q[i], SeqMax(q, i + 1))

\* geos_get_component_boxes of a POLYGON: the envelope of its shell
geos_get_component_boxes(poly) ==
    LET ring == poly.rings[1]
        xs == [i \in 1 .. Len(ring) |-> ring[i].x]
        ys == [i \in 1 .. Len(ring) |-> ring[i].y]
    IN  << Box(SeqMin(xs, 1), SeqMin(ys, 1), SeqMax(xs, 1), SeqMax(ys, 1)) >>

\* geos_is_ccw of a closed ring (polygon_signed_area is negative for a
\* counterclockwise ring: it sums x[i] * (y[i-1] - y[i+1]))
geos_is_ccw(ring) == polygon_signed_area(ring) < 0

RECURSIVE RegionFold(_, _, _, _)
\* the loop over component boxes (lines 417-426)
RegionFold(boxes, i, ext, region) ==
    IF i > Len(boxes) THEN region
    ELSE IF ~ BoxIntersects(boxes[i], ext)
         THEN RegionFold(boxes, i + 1, ext, region)
         ELSE LET isect == BoxIntersection(ext, boxes[i])
              IN  RegionFold(boxes, i + 1, ext,
                      IF BoxEmpty(region) THEN isect
                      ELSE IF ~ BoxContainsBox(region, isect)
                           THEN BoxExpandToInclude(region, isect)
                           ELSE region)

\* lines 416-441: the subgrid, its offsets and the empty row table of one
\* polygon; skip = TRUE is the early return on an empty region
Subgrid(full_grid, poly) ==
    LET region == RegionFold(geos_get_component_boxes(poly), 1,
                             GridExtent(full_grid), Box(0, 0, 0, 0))
    IN  IF BoxEmpty(region) THEN [skip |-> TRUE]
        ELSE
            LET subgrid_bounded == shrink_to_fit(full_grid, region)
                subgrid == make_infinite(subgrid_bounded)
            IN  [skip |-> FALSE,
                 subgrid |-> subgrid,
                 sub_rows |-> subgrid.rows - 2,
                 sub_cols |-> subgrid.cols - 2,
                 row_off |-> (full_grid.ymax - subgrid_bounded.ymax) \div dy,
                 col_off |-> (subgrid_bounded.xmin - full_grid.xmin) \div dx]

\* the row table of the previous component kept when it has the same number
\* of rows (one row table shared by the components of a geometry)
SharedRowData(previous, sub_rows) ==
    IF Len(previous) = sub_rows THEN previous ELSE [i \in 1 .. sub_rows |-> <<>>]

\* the row table of one polygon, constructed empty whatever table the
\* previous component left (line 441)
NewRowData(previous, sub_rows) == [i \in 1 .. sub_rows |-> <<>>]

RECURSIVE InsertByCol(_, _)
InsertByCol(sorted, rec) ==
    IF sorted = <<>> THEN <<rec>>
    ELSE IF rec.col < Head(sorted).col THEN <<rec>> \o sorted
    ELSE <<Head(sorted)>> \o InsertByCol(Tail(sorted), rec)

RECURSIVE SortByCol(_, _, _)
\* std::sort by col (lines 474-477)
SortByCol(row_vec, i, acc) ==
    IF i > Len(row_vec) THEN acc
    ELSE SortByCol(row_vec, i + 1, InsertByCol(acc, row_vec[i]))

RECURSIVE MergeSameCol(_, _, _)
\* merge same-column entries (lines 480-488)
MergeSameCol(sorted, i, merged) ==
    IF i > Len(sorted) THEN merged
    ELSE IF merged # <<>> /\ Back(merged).col = sorted[i].col
         THEN MergeSameCol(sorted, i + 1,
                  [merged EXCEPT ![Len(merged)].coverage = @ + sorted[i].coverage,
                                 ![Len(merged)].winding_delta = @ + sorted[i].winding_delta])
         ELSE MergeSameCol(sorted, i + 1, Append(merged, sorted[i]))

AboveTol(w) == w > Tol
BelowOneMinusTol(w) == w < CovOne - Tol

GridRun(r, cs, ce, id) == [row |-> r, col_start |-> cs, col_end |-> ce, id |-> id]
GridEdge(r, c, w, id) == [row |-> r, col |-> c, weight |-> w, id |-> id]

\* the interior run left in 0-based columns
InteriorRunZeroBased(mc, winding, prev_col, full_row, poly_id) ==
    IF winding # 0 /\ prev_col > -2 /\ mc.col > prev_col + 1
    THEN << GridRun(full_row, prev_col + 1, mc.col - 1, poly_id) >>
    ELSE <<>>

\* the interior run extended over the boundary cell that ends it
InteriorRunThroughBoundary(mc, winding, prev_col, full_row, poly_id) ==
    IF winding # 0 /\ prev_col > -2 /\ mc.col > prev_col + 1
    THEN << GridRun(full_row, prev_col + 1 + 1, mc.col + 1, poly_id) >>
    ELSE <<>>

\* the interior run with -1 as the mark of "no record seen yet"
InteriorRunSentinelMinusOne(mc, winding, prev_col, full_row, poly_id) ==
    IF winding # 0 /\ prev_col > -1 /\ mc.col > prev_col + 1
    THEN << GridRun(full_row, prev_col + 1 + 1, mc.col - 1 + 1, poly_id) >>
    ELSE <<>>

\* the interior run emitted whatever the winding is
InteriorRunAnyWinding(mc, winding, prev_col, full_row, poly_id) ==
    IF prev_col > -2 /\ mc.col > prev_col + 1
    THEN << GridRun(full_row, prev_col + 1 + 1, mc.col - 1 + 1, poly_id) >>
    ELSE <<>>

\* the records one merged boundary cell appends (lines 497-511)
InteriorRun(mc, winding, prev_col, full_row, poly_id) ==
    IF winding # 0 /\ prev_col > -2 /\ mc.col > prev_col + 1
    THEN << GridRun(full_row, prev_col + 1 + 1, mc.col - 1 + 1, poly_id) >>
    ELSE <<>>

\* the unit run emitted for every cell above the lower threshold, not as the
\* alternative to the edge
BoundaryRunNoElse(mc, full_row, poly_id) ==
    IF AboveTol(mc.coverage)
    THEN << GridRun(full_row, mc.col + 1, mc.col + 1, poly_id) >>
    ELSE <<>>

\* lines 509-510: the unit run of a boundary cell that is covered
BoundaryRun(mc, full_row, poly_id) ==
    IF ~ (AboveTol(mc.coverage) /\ BelowOneMinusTol(mc.coverage))
       /\ ~ BelowOneMinusTol(mc.coverage)
    THEN << GridRun(full_row, mc.col + 1, mc.col + 1, poly_id) >>
    ELSE <<>>

\* the edge left at its 0-based column
BoundaryEdgeZeroBased(mc, full_row, poly_id) ==
    IF AboveTol(mc.coverage) /\ BelowOneMinusTol(mc.coverage)
    THEN << GridEdge(full_row, mc.col, mc.coverage, poly_id) >>
    ELSE <<>>

\* the edge test without its upper bound
BoundaryEdgeNoUpper(mc, full_row, poly_id) ==
    IF AboveTol(mc.coverage)
    THEN << GridEdge(full_row, mc.col + 1, mc.coverage, poly_id) >>
    ELSE <<>>

BoundaryEdge(mc, full_row, poly_id) ==
    IF AboveTol(mc.coverage) /\ BelowOneMinusTol(mc.coverage)
    THEN << GridEdge(full_row, mc.col + 1, mc.coverage, poly_id) >>
    ELSE <<>>

RECURSIVE SweepRowClassifyFirst(_, _, _, _, _, _, _)
\* the sweep with the boundary cell classified before the interior run that
\* precedes it is emitted
SweepRowClassifyFirst(merged, i, winding, prev_col, full_row, poly_id, out) ==
    IF i > Len(merged) THEN out
    ELSE LET mc == merged[i]
         IN  SweepRowClassifyFirst(merged, i + 1, winding + mc.winding_delta, mc.col,
                      full_row, poly_id,
                      [runs |-> (out.runs \o BoundaryRun(mc, full_row, poly_id))
                                 \o InteriorRun(mc, winding, prev_col, full_row, poly_id),
                       edges |-> out.edges \o BoundaryEdge(mc, full_row, poly_id)])

RECURSIVE SweepRow(_, _, _, _, _, _, _)
\* the loop over the merged records of one row (lines 490-515)
SweepRow(merged, i, winding, prev_col, full_row, poly_id, out) ==
    IF i > Len(merged) THEN out
    ELSE LET mc == merged[i]
         IN  SweepRow(merged, i + 1, winding + mc.winding_delta, mc.col,
                      full_row, poly_id,
                      [runs |-> (out.runs
                                 \o InteriorRun(mc, winding, prev_col, full_row, poly_id))
                                 \o BoundaryRun(mc, full_row, poly_id),
                       edges |-> out.edges \o BoundaryEdge(mc, full_row, poly_id)])

RECURSIVE WindingSweep(_, _, _, _, _)
\* the winding sweep over the rows of one polygon (lines 470-516)
WindingSweep(row_data, sr, row_off, poly_id, out) ==
    IF sr >= Len(row_data) THEN out
    ELSE LET row_vec == row_data[sr + 1]
             merged == MergeSameCol(SortByCol(row_vec, 1, <<>>), 1, <<>>)
         IN  WindingSweep(row_data, sr + 1, row_off, poly_id,
                 IF row_vec = <<>> THEN out
                 ELSE SweepRow(merged, 1, 0, -2, row_off + sr + 1, poly_id, out))

RECURSIVE WalkRings(_, _, _, _)
\* exterior ring, then each hole, into the same row table (lines 443-464)
WalkRings(poly, i, sg, acc) ==
    IF i > Len(poly.rings) \/ acc.threw THEN acc
    ELSE WalkRings(poly, i + 1, sg,
             walk_ring(poly.rings[i], geos_is_ccw(poly.rings[i]), i = 1,
                       sg.subgrid, acc.row_data, sg.sub_rows, sg.sub_cols, sg.col_off))

\* ---------------------------------------------------------------------
\* dense_to_sparse (dense_to_sparse.h lines 40-97)
\* ---------------------------------------------------------------------
\* every interior cell emitted as a run of its own
DenseCellUnitRuns(w, j, run_start, full_row, col_offset, id, result) ==
    LET full_col == col_offset + j + 1
    IN  IF w <= 0 THEN [run_start |-> -1, result |-> result]
        ELSE IF w >= CovOne - Tol
        THEN [run_start |-> -1,
              result |-> [result EXCEPT !.runs =
                             Append(@, GridRun(full_row, full_col, full_col, id))]]
        ELSE [run_start |-> -1,
              result |-> [result EXCEPT !.edges =
                             Append(@, GridEdge(full_row, full_col, w, id))]]

\* the body of the inner loop for one cell of weight w at 0-based column j
\* (lines 58-86): the run state and the result after the cell
DenseCell(w, j, run_start, full_row, col_offset, id, result) ==
    LET full_col == col_offset + j + 1
        full_col_end == col_offset + j - 1 + 1
        closed == IF run_start >= 0
                  THEN [result EXCEPT !.runs =
                           Append(@, GridRun(full_row, run_start, full_col_end, id))]
                  ELSE result
    IN  IF w <= 0 THEN [run_start |-> -1, result |-> closed]
        ELSE IF w >= CovOne - Tol
        THEN [run_start |-> IF run_start < 0 THEN full_col ELSE run_start,
              result |-> result]
        ELSE [run_start |-> -1,
              result |-> [closed EXCEPT !.edges =
                             Append(@, GridEdge(full_row, full_col, w, id))]]

RECURSIVE DenseRowOpenEnd(_, _, _, _, _, _, _, _, _)
\* the inner loop without the closing of a run that reaches the end of the row
DenseRowOpenEnd(mat_data, ncol, i, j, run_start, full_row, col_offset, id, result) ==
    IF j >= ncol THEN result
    ELSE LET c == DenseCell(mat_data[i * ncol + j + 1], j, run_start,
                            full_row, col_offset, id, result)
         IN  DenseRowOpenEnd(mat_data, ncol, i, j + 1, c.run_start, full_row,
                             col_offset, id, c.result)

RECURSIVE DenseRow(_, _, _, _, _, _, _, _, _)
\* the inner loop over the columns of row i and the closing of a run that
\* reaches the end of the row (lines 57-93)
DenseRow(mat_data, ncol, i, j, run_start, full_row, col_offset, id, result) ==
    IF j >= ncol
    THEN IF run_start >= 0
         THEN [result EXCEPT !.runs =
                  Append(@, GridRun(full_row, run_start, col_offset + ncol - 1 + 1, id))]
         ELSE result
    ELSE LET c == DenseCell(mat_data[i * ncol + j + 1], j, run_start,
                            full_row, col_offset, id, result)
         IN  DenseRow(mat_data, ncol, i, j + 1, c.run_start, full_row, col_offset, id,
                      c.result)

RECURSIVE DenseRows(_, _, _, _, _, _, _, _)
\* the outer loop over the rows (lines 51-94); run_start starts at -1 in
\* every row
DenseRows(mat_data, nrow, ncol, i, row_offset, col_offset, id, result) ==
    IF i >= nrow THEN result
    ELSE DenseRows(mat_data, nrow, ncol, i + 1, row_offset, col_offset, id,
                   DenseRow(mat_data, ncol, i, 0, -1, row_offset + i + 1,
                            col_offset, id, result))

dense_to_sparse(mat_data, nrow, ncol, row_offset, col_offset, id) ==
    DenseRows(mat_data, nrow, ncol, 0, row_offset, col_offset, id,
              [runs |-> <<>>, edges |-> <<>>])

\* ---------------------------------------------------------------------
\* Input geometries.  A ring is a closed sequence of lattice coordinates.
\* ---------------------------------------------------------------------
Rect(x0, y0, x1, y1) ==
    << Coord(x0, y0), Coord(x1, y0), Coord(x1, y1), Coord(x0, y1), Coord(x0, y0) >>

\* right isosceles triangle: corner (cx, cy), legs of length leg towards
\* sx (along x) and sy (along y)
Tri(cx, cy, leg, sx, sy) ==
    << Coord(cx, cy), Coord(cx + sx * leg, cy), Coord(cx, cy + sy * leg), Coord(cx, cy) >>

Polygon(rings) == [type |-> "POLYGON", rings |-> rings, lib_error |-> FALSE]
\* a polygon on which the geometry library raises while it is processed
FailingPolygon(rings) == [type |-> "POLYGON", rings |-> rings, lib_error |-> TRUE]
MultiPolygon(geoms) == [type |-> "MULTIPOLYGON", geoms |-> geoms]
Collection(geoms) == [type |-> "GEOMETRYCOLLECTION", geoms |-> geoms]

\* elements of wkb_list
RawGeom(g) == [kind |-> "geom", geom |-> g]
EmptyBuffer == [kind |-> "empty_buffer"]
BadWkb == [kind |-> "bad_wkb"]
EmptyGeom == [kind |-> "empty_geom"]
NotRaw == [kind |-> "not_raw"]

RECURSIVE Flatten(_)
RECURSIVE FlattenAll(_, _)
\* the POLYGONs process_geometry reaches, in the order of its recursion
\* (lines 404-414)
Flatten(g) ==
    IF g.type \in {"GEOMETRYCOLLECTION", "MULTIPOLYGON"} THEN FlattenAll(g.geoms, 1)
    ELSE IF g.type = "POLYGON" THEN <<g>>
    ELSE <<>>
FlattenAll(geoms, i) ==
    IF i > Len(geoms) THEN <<>> ELSE Flatten(geoms[i]) \o FlattenAll(geoms, i + 1)

\* the lattice the vertices are drawn from: cell boundaries, one point off
\* the boundary, the row midline, and one unit outside the extent
XVals == {-1} \cup {x \in 0 .. NCol * dx + 1 : x % dx \in {0, 1}}
YVals == {-1} \cup {y \in 0 .. NRow * dy + 1 : y % dy \in {0, 1, 2}}
TriLegs == {dx, 3 * dx}

RectPolygons ==
    {Polygon(<<Rect(x0, y0, x1, y1)>>) :
        <<x0, y0, x1, y1>> \in {q \in XVals \X YVals \X XVals \X YVals :
                                   q[1] < q[3] /\ q[2] < q[4]}}

TriPolygons ==
    {Polygon(<<Tri(q[1], q[2], q[3], q[4], q[5])>>) :
        q \in XVals \X YVals \X TriLegs \X {-1, 1} \X {-1, 1}}

\* a shell that is the full extent, or reaches one unit beyond it on every
\* side, with one rectangular hole strictly inside the extent, the hole given
\* clockwise
HolePolygons ==
    {Polygon(<<Rect(0 - m, 0 - m, NCol * dx + m, NRow * dy + m),
               Reverse(Rect(q[1], q[2], q[3], q[4]))>>) :
        m \in {0, 1},
        q \in {q \in XVals \X YVals \X XVals \X YVals :
                  /\ 0 < q[1] /\ q[1] < q[3] /\ q[3] < NCol * dx
                  /\ 0 < q[2] /\ q[2] < q[4] /\ q[4] < NRow * dy}}

\* small rectangles for the components of multi-part geometries
PartVals == {0, 1, 2, dx + 1}
PartPolygons ==
    {Polygon(<<Rect(q[1], q[2], q[3], q[4])>>) :
        q \in {q \in PartVals \X PartVals \X PartVals \X PartVals :
                  q[1] < q[3] /\ q[2] < q[4]}}

MultiGeoms ==
    {MultiPolygon(<<a, b>>) : a \in PartPolygons, b \in PartPolygons}
    \cup {MultiPolygon(<<a, FailingPolygon(<<Rect(0, 0, 1, 1)>>)>>) : a \in PartPolygons}
    \cup {Collection(<<MultiPolygon(<<a, a>>), [type |-> "POINT"], a>>) :
             a \in {Polygon(<<Rect(0, 0, 1, 1)>>), Polygon(<<Rect(1, 1, dx + 1, dx + 1)>>)}}

\* the elements longer lists are made of
ListItems ==
    {EmptyBuffer, BadWkb, EmptyGeom, NotRaw,
     RawGeom(Polygon(<<Rect(0, 0, dx, dy)>>)),
     RawGeom(Polygon(<<Rect(1, 1, dx + 1, dy + 1)>>)),
     RawGeom(FailingPolygon(<<Rect(0, 0, dx, dy)>>)),
     RawGeom(MultiPolygon(<<Polygon(<<Rect(1, 0, dx + 1, 1)>>),
                            Polygon(<<Rect(0, dy + 1, 1, 2 * dy)>>)>>))}

RECURSIVE Lists(_)
Lists(n) ==
    IF n = 0 THEN {<<>>}
    ELSE LET shorter == Lists(n - 1)
         IN  shorter \cup {Append(l, it) : l \in {m \in shorter : Len(m) = n - 1},
                                           it \in ListItems}

WkbLists ==
    {<<RawGeom(g)>> : g \in RectPolygons \cup TriPolygons \cup HolePolygons \cup MultiGeoms}
    \cup Lists(MaxGeoms)

\* Arguments of a call (lines 523-527).  The extent of a well-formed request
\* starts at the origin and spans ncol by nrow cells of dx by dy.
ScanlineRequests ==
    {[engine |-> "scanline", wkb_list |-> l, ncol |-> NCol, nrow |-> NRow,
      xmin |-> 0, ymin |-> 0, xmax |-> NCol * dx, ymax |-> NRow * dy] :
        l \in WkbLists}

\* Requests of cpp_burn_sparse.  The dense coverage matrix of the geometry is
\* the result of exactextract::raster_cell_intersection, drawn here from
\* weights at and around the thresholds of dense_to_sparse.
DenseVals == {0, Tol, CovOne \div 2, CovOne - Tol - 1, CovOne - Tol, CovOne}
CoarseVals == {0, CovOne \div 2, CovOne}
DenseCols == NCol
DenseOffsets == {0, 1}

\* the row-major buffers of n cells over the weights vals
Buffers(n, vals) == [1 .. n -> vals]

Rci(mat, nr, nc, ro, co) ==
    [mat |-> mat, sub_rows |-> nr, sub_cols |-> nc, row_off |-> ro, col_off |-> co]

DenseRequest(rci) ==
    [engine |-> "dense",
     wkb_list |-> << [kind |-> "geom", rci |-> rci] >>,
     ncol |-> rci.col_off + rci.sub_cols,
     nrow |-> rci.row_off + rci.sub_rows,
     xmin |-> 0, ymin |-> 0,
     xmax |-> (rci.col_off + rci.sub_cols) * dx,
     ymax |-> (rci.row_off + rci.sub_rows) * dy]

DenseRequests ==
    {DenseRequest(Rci(m, 1, DenseCols, ro, co)) :
        m \in Buffers(DenseCols, DenseVals), ro \in DenseOffsets, co \in DenseOffsets}
    \cup {DenseRequest(Rci(m, 2, DenseCols, 0, 0)) :
             m \in Buffers(2 * DenseCols, CoarseVals)}

\* requests with a non-positive dimension or a degenerate or inverted extent,
\* made from one well-formed request of each entry point
InvalidRequests ==
    LET base == {[engine |-> "scanline",
                  wkb_list |-> <<RawGeom(Polygon(<<Rect(0, 0, dx, dy)>>))>>,
                  ncol |-> NCol, nrow |-> NRow,
                  xmin |-> 0, ymin |-> 0, xmax |-> NCol * dx, ymax |-> NRow * dy],
                 DenseRequest(Rci([i \in 1 .. DenseCols |-> CovOne], 1, DenseCols, 0, 0))}
    IN  {[r EXCEPT !.ncol = c, !.nrow = n, !.xmax = x, !.ymax = y] :
            <<r, c, n, x, y>> \in
                {q \in base \X {-1, 0, NCol} \X {-1, 0, NRow}
                          \X {-1, 0, NCol * dx} \X {-1, 0, NRow * dy} :
                    q[2] <= 0 \/ q[3] <= 0 \/ q[4] <= 0 \/ q[5] <= 0}}

\* extent (0,0,2,2) on a 2x2 grid (cells of dx by dy lattice units) with the
\* horizontal band (-1,0.5)-(3,0.5)-(3,1.5)-(-1,1.5) as its only geometry
BandPolygon == Polygon(<<Rect(0 - dx, dy \div 2, 3 * dx, dy + dy \div 2)>>)
BandRequest ==
    [engine |-> "scanline", wkb_list |-> <<RawGeom(BandPolygon)>>,
     ncol |-> 2, nrow |-> 2,
     xmin |-> 0, ymin |-> 0, xmax |-> 2 * dx, ymax |-> 2 * dy]

Requests == ScanlineRequests \cup DenseRequests \cup InvalidRequests \cup {BandRequest}

\* ---------------------------------------------------------------------
\* cpp_scanline_burn as a state machine (scanline_burn.cpp lines 523-632)
\* ---------------------------------------------------------------------
VARIABLES
    req,          \* the arguments of the call
    pc,           \* where the call is: start, error, loop, component, rings,
                  \* walking, done, escaped
    k,            \* loop index over wkb_list, 0-based
    ctx,          \* GEOS context handle: none, live, released
    wkb_reader,   \* WKB reader handle: none, live, released
    geoms_live,   \* indices k whose parsed geometry is not yet destroyed
    comps,        \* POLYGON components of the geometry being processed
    ci,           \* index of the component being processed, 1-based
    sg,           \* subgrid and offsets of the component
    row_data,     \* row table of the component
    ri,           \* index of the next ring of the component to walk
    all_runs,     \* output accumulator of runs
    all_edges,    \* output accumulator of edges
    warnings,     \* the 1-based geometry indices named by warnings, in order
    failed,       \* ids of geometries whose processing threw
    mark,         \* lengths of the accumulators when the component began
    walk          \* state of the ring walk in progress

vars == << req, pc, k, ctx, wkb_reader, geoms_live, comps, ci, sg, row_data, ri,
           all_runs, all_edges, warnings, failed, mark, walk >>

NoSubgrid == [skip |-> TRUE]
NoMark == [runs |-> 0, edges |-> 0]
NoWalk == [coords |-> <<>>, pos |-> 0, row |-> 0, col |-> 0,
           last_exit |-> <<>>, cells |-> <<>>, threw |-> FALSE]

full_grid == Grid(Box(req.xmin, req.ymin, req.xmax, req.ymax), req.nrow, req.ncol)

Init ==
    /\ req \in Requests
    /\ pc = "start"
    /\ k = 0
    /\ ctx = "none"
    /\ wkb_reader = "none"
    /\ geoms_live = {}
    /\ comps = <<>>
    /\ ci = 0
    /\ sg = NoSubgrid
    /\ row_data = <<>>
    /\ ri = 0
    /\ all_runs = <<>>
    /\ all_edges = <<>>
    /\ warnings = <<>>
    /\ failed = {}
    /\ mark = NoMark
    /\ walk = NoWalk

\* a variant that checks the dimensions only
ArgumentsValidDimsOnly(r) == ~ (r.ncol <= 0 \/ r.nrow <= 0)
\* lines 528-533 (controlledburn.cpp lines 85-90): the argument checks
ArgumentsValid(r) ==
    /\ ~ (r.ncol <= 0 \/ r.nrow <= 0)
    /\ ~ (r.xmax <= r.xmin \/ r.ymax <= r.ymin)

\* lines 529 and 532: cpp11::stop leaves the call before the context guard and
\* the reader exist
Stop ==
    /\ pc = "start"
    /\ ~ ArgumentsValid(req)
    /\ pc' = "error"
    /\ UNCHANGED << req, k, ctx, wkb_reader, geoms_live, comps, ci, sg, row_data, ri,
                    all_runs, all_edges, warnings, failed, mark, walk >>

\* lines 528-550: argument checks passed, context guard, WKB reader,
\* accumulators
Begin ==
    /\ pc = "start"
    /\ ArgumentsValid(req)
    /\ pc' = "loop"
    /\ ctx' = "live"
    /\ wkb_reader' = "live"
    /\ UNCHANGED << req, k, geoms_live, comps, ci, sg, row_data, ri,
                    all_runs, all_edges, warnings, failed, mark, walk >>

InLoop == pc = "loop" /\ k < Len(req.wkb_list)
Item == req.wkb_list[k + 1]

\* a variant that hands the 0-based loop index on as the id
PolyIdZeroBased(kk) == kk
\* line 570 (controlledburn.cpp line 157): the id given to the records of the
\* element at 0-based loop index kk
PolyId(kk) == kk + 1

\* line 553: cpp11::raws on an element that is no raw vector throws outside
\* the try block; the stack unwinds (context guard runs), the reader is not
\* destroyed
ElementNotRaw ==
    /\ InLoop
    /\ Item.kind = "not_raw"
    /\ pc' = "escaped"
    /\ ctx' = "released"
    /\ UNCHANGED << req, k, wkb_reader, geoms_live, comps, ci, sg, row_data, ri,
                    all_runs, all_edges, warnings, failed, mark, walk >>

\* line 555: empty buffer
SkipEmptyBuffer ==
    /\ InLoop
    /\ Item.kind = "empty_buffer"
    /\ k' = k + 1
    /\ UNCHANGED << req, pc, ctx, wkb_reader, geoms_live, comps, ci, sg, row_data, ri,
                    all_runs, all_edges, warnings, failed, mark, walk >>

\* a variant that skips an unparsable buffer without a warning
ParseFailureSilent ==
    /\ InLoop
    /\ Item.kind = "bad_wkb"
    /\ k' = k + 1
    /\ UNCHANGED << req, pc, ctx, wkb_reader, geoms_live, comps, ci, sg, row_data, ri,
                    all_runs, all_edges, warnings, failed, mark, walk >>

\* lines 559-565: the reader returns null
ParseFailure ==
    /\ InLoop
    /\ Item.kind = "bad_wkb"
    /\ warnings' = Append(warnings, k + 1)
    /\ k' = k + 1
    /\ UNCHANGED << req, pc, ctx, wkb_reader, geoms_live, comps, ci, sg, row_data, ri,
                    all_runs, all_edges, failed, mark, walk >>

\* line 567: parsed, empty; the guard destroys the geometry on continue
SkipEmptyGeometry ==
    /\ InLoop
    /\ Item.kind = "empty_geom"
    /\ k' = k + 1
    /\ UNCHANGED << req, pc, ctx, wkb_reader, geoms_live, comps, ci, sg, row_data, ri,
                    all_runs, all_edges, warnings, failed, mark, walk >>

\* lines 559-572: parsed, not empty: enter process_geometry
BeginGeometry ==
    /\ InLoop
    /\ req.engine = "scanline"
    /\ Item.kind = "geom"
    /\ geoms_live' = geoms_live \cup {k}
    /\ comps' = Flatten(Item.geom)
    /\ ci' = 1
    /\ pc' = "component"
    /\ UNCHANGED << req, k, ctx, wkb_reader, sg, row_data, ri,
                    all_runs, all_edges, warnings, failed, mark, walk >>

\* lines 573-576: the catch block, then the guard of the geometry
Caught ==
    /\ warnings' = Append(warnings, k + 1)
    /\ failed' = failed \cup {k + 1}
    /\ geoms_live' = geoms_live \ {k}
    /\ k' = k + 1
    /\ pc' = "loop"
    /\ comps' = <<>>
    /\ ci' = 0
    /\ sg' = NoSubgrid
    /\ row_data' = <<>>
    /\ ri' = 0

\* lines 414-441: one POLYGON: region, subgrid, offsets, empty row table
BeginComponent ==
    /\ pc = "component"
    /\ ci <= Len(comps)
    /\ LET poly == comps[ci]
           s == Subgrid(full_grid, poly)
       IN  IF poly.lib_error
           THEN Caught /\ UNCHANGED << req, ctx, wkb_reader, all_runs, all_edges, mark, walk >>
           ELSE IF s.skip
           THEN /\ ci' = ci + 1
                /\ UNCHANGED << req, pc, k, ctx, wkb_reader, geoms_live, comps, sg,
                                row_data, ri, all_runs, all_edges, warnings, failed, mark, walk >>
           ELSE /\ sg' = s
                /\ row_data' = NewRowData(row_data, s.sub_rows)
                /\ ri' = 1
                /\ pc' = "rings"
                /\ mark' = [runs |-> Len(all_runs), edges |-> Len(all_edges)]
                /\ UNCHANGED << req, k, ctx, wkb_reader, geoms_live, comps, ci,
                                all_runs, all_edges, warnings, failed, walk >>

\* lines 149-185: enter walk_ring for the next ring of the component
\* (exterior first, then the holes); a ring of fewer than 4 coordinates
\* returns at once
StartRing ==
    /\ pc = "rings"
    /\ ri <= Len(comps[ci].rings)
    /\ LET ring == comps[ci].rings[ri]
           cs == IF geos_is_ccw(ring) THEN ring ELSE Reverse(ring)
       IN  IF Len(ring) < 4
           THEN /\ ri' = ri + 1
                /\ UNCHANGED << pc, walk >>
           ELSE /\ walk' = StartWalk(sg.subgrid, cs)
                /\ pc' = "walking"
                /\ UNCHANGED ri
    /\ UNCHANGED << req, k, ctx, wkb_reader, geoms_live, comps, ci, sg, row_data,
                    all_runs, all_edges, warnings, failed, mark >>

\* an outer loop whose iteration, when it finds a carried-over exit point
\* pending, neither consumes it nor moves
WalkStepStalls ==
    /\ pc = "walking"
    /\ WalkRunning(walk)
    /\ LET w == IF walk.last_exit # <<>> THEN walk ELSE WalkStepF(sg.subgrid, walk)
       IN  IF w.threw
           THEN /\ Caught
                /\ walk' = NoWalk
                /\ UNCHANGED << req, ctx, wkb_reader, all_runs, all_edges, mark >>
           ELSE /\ walk' = w
                /\ UNCHANGED << req, pc, k, ctx, wkb_reader, geoms_live, comps, ci, sg,
                                row_data, ri, all_runs, all_edges, warnings, failed, mark >>

\* lines 187-265: one iteration of the outer loop of the walk (one cell
\* visit); a throw of Box::crossing leaves process_geometry
WalkStep ==
    /\ pc = "walking"
    /\ WalkRunning(walk)
    /\ LET w == WalkStepF(sg.subgrid, walk)
       IN  IF w.threw
           THEN /\ Caught
                /\ walk' = NoWalk
                /\ UNCHANGED << req, ctx, wkb_reader, all_runs, all_edges, mark >>
           ELSE /\ walk' = w
                /\ UNCHANGED << req, pc, k, ctx, wkb_reader, geoms_live, comps, ci, sg,
                                row_data, ri, all_runs, all_edges, warnings, failed, mark >>

\* lines 269-382: the walk is over; aggregate the cells of the ring into the
\* row table of the component
EndRing ==
    /\ pc = "walking"
    /\ ~ WalkRunning(walk)
    /\ row_data' = AggregateCells(row_data, sg.subgrid, walk.cells,
                                  SortedKeys(DOMAIN walk.cells), 1,
                                  ri = 1, sg.sub_rows, sg.sub_cols, sg.col_off)
    /\ ri' = ri + 1
    /\ walk' = NoWalk
    /\ pc' = "rings"
    /\ UNCHANGED << req, k, ctx, wkb_reader, geoms_live, comps, ci, sg,
                    all_runs, all_edges, warnings, failed, mark >>

\* the sweep writing the records of the component into emptied accumulators
SweepOverwrites ==
    /\ pc = "rings"
    /\ ri > Len(comps[ci].rings)
    /\ LET out == WindingSweep(row_data, 0, sg.row_off, PolyId(k),
                               [runs |-> <<>>, edges |-> <<>>])
       IN  /\ all_runs' = out.runs
           /\ all_edges' = out.edges
    /\ ci' = ci + 1
    /\ pc' = "component"
    /\ UNCHANGED << req, k, ctx, wkb_reader, geoms_live, comps, sg, row_data, ri,
                    warnings, failed, mark, walk >>

\* the sweep run as soon as the exterior ring is aggregated
SweepAfterExterior ==
    /\ pc = "rings"
    /\ ri > 1
    /\ LET out == WindingSweep(row_data, 0, sg.row_off, PolyId(k),
                               [runs |-> all_runs, edges |-> all_edges])
       IN  /\ all_runs' = out.runs
           /\ all_edges' = out.edges
    /\ ci' = ci + 1
    /\ pc' = "component"
    /\ UNCHANGED << req, k, ctx, wkb_reader, geoms_live, comps, sg, row_data, ri,
                    warnings, failed, mark, walk >>

\* lines 466-516: the winding sweep appends the component's runs and edges.
\* The subgrid and the row table are locals of this call of process_geometry;
\* their last values stay readable here until the next component or the end
\* of the geometry replaces them.
Sweep ==
    /\ pc = "rings"
    /\ ri > Len(comps[ci].rings)
    /\ LET out == WindingSweep(row_data, 0, sg.row_off, PolyId(k),
                               [runs |-> all_runs, edges |-> all_edges])
       IN  /\ all_runs' = out.runs
           /\ all_edges' = out.edges
    /\ ci' = ci + 1
    /\ pc' = "component"
    /\ UNCHANGED << req, k, ctx, wkb_reader, geoms_live, comps, sg, row_data, ri,
                    warnings, failed, mark, walk >>

\* process_geometry returns; the guard destroys the geometry (line 577)
EndGeometry ==
    /\ pc = "component"
    /\ ci > Len(comps)
    /\ geoms_live' = geoms_live \ {k}
    /\ k' = k + 1
    /\ pc' = "loop"
    /\ comps' = <<>>
    /\ ci' = 0
    /\ sg' = NoSubgrid
    /\ row_data' = <<>>
    /\ ri' = 0
    /\ UNCHANGED << req, ctx, wkb_reader, all_runs, all_edges, warnings, failed, mark, walk >>

\* cpp_burn_sparse (controlledburn.cpp lines 132-164): the dense coverage
\* matrix of the geometry goes through dense_to_sparse and the result is
\* appended to the accumulators
BurnSparseGeometry ==
    /\ InLoop
    /\ req.engine = "dense"
    /\ Item.kind = "geom"
    /\ LET rci == Item.rci
           sp == dense_to_sparse(rci.mat, rci.sub_rows, rci.sub_cols,
                                 rci.row_off, rci.col_off, PolyId(k))
       IN  /\ all_runs' = all_runs \o sp.runs
           /\ all_edges' = all_edges \o sp.edges
    /\ k' = k + 1
    /\ UNCHANGED << req, pc, ctx, wkb_reader, geoms_live, comps, ci, sg, row_data, ri,
                    warnings, failed, mark, walk >>

\* lines 579-632: destroy the reader, build the tables, return (the context
\* guard runs on return)
Finish ==
    /\ pc = "loop"
    /\ k >= Len(req.wkb_list)
    /\ wkb_reader' = "released"
    /\ ctx' = "released"
    /\ pc' = "done"
    /\ UNCHANGED << req, k, geoms_live, comps, ci, sg, row_data, ri,
                    all_runs, all_edges, warnings, failed, mark, walk >>

Next ==
    \/ Stop
    \/ Begin
    \/ ElementNotRaw
    \/ SkipEmptyBuffer
    \/ ParseFailure
    \/ SkipEmptyGeometry
    \/ BeginGeometry
    \/ BeginComponent
    \/ StartRing
    \/ WalkStep
    \/ EndRing
    \/ Sweep
    \/ EndGeometry
    \/ BurnSparseGeometry
    \/ Finish

Spec == Init /\ [][Next]_vars

\* the outer loop of walk_ring is sequential code: while its condition holds
\* the next iteration runs
LiveSpec == Spec /\ WF_vars(WalkStep)

\* ---------------------------------------------------------------------
\* Reference computations for the properties below
\* ---------------------------------------------------------------------
\* process_geometry on one POLYGON alone (lines 414-516): the runs and edges
\* it appends to empty accumulators
process_geometry(fg, poly, poly_id) ==
    LET s == Subgrid(fg, poly)
        none == [runs |-> <<>>, edges |-> <<>>]
    IN  IF s.skip THEN none
        ELSE LET acc == WalkRings(poly, 1, s,
                            [row_data |-> [i \in 1 .. s.sub_rows |-> <<>>],
                             threw |-> FALSE])
             IN  IF acc.threw THEN none
                 ELSE WindingSweep(acc.row_data, 0, s.row_off, poly_id, none)

RECURSIVE ProcessComponents(_, _, _, _, _)
\* the components cs[1 .. n] each processed alone, in order
ProcessComponents(fg, cs, n, poly_id, i) ==
    IF i > n THEN [runs |-> <<>>, edges |-> <<>>]
    ELSE LET one == process_geometry(fg, cs[i], poly_id)
             rest == ProcessComponents(fg, cs, n, poly_id, i + 1)
         IN  [runs |-> one.runs \o rest.runs, edges |-> one.edges \o rest.edges]

IsScanline == req.engine = "scanline"
IsDense == req.engine = "dense"

TailFrom(q, n) == SubSeq(q, n + 1, Len(q))
\* the records appended by the polygon component that began last
ComponentRuns == TailFrom(all_runs, mark.runs)
ComponentEdges == TailFrom(all_edges, mark.edges)

\* the request is one POLYGON with n rings, processed to the end
SinglePolygonDone(n) ==
    /\ pc = "done"
    /\ IsScanline
    /\ Len(req.wkb_list) = 1
    /\ req.wkb_list[1].kind = "geom"
    /\ req.wkb_list[1].geom.type = "POLYGON"
    /\ Len(req.wkb_list[1].geom.rings) = n
    /\ failed = {}

\* the cell (r, c) of the full grid, 1-based, row 1 at the top
CellBox(r, c) ==
    Box((c - 1) * dx, (req.nrow - r) * dy, c * dx, (req.nrow - r + 1) * dy)

\* Exact coverage of a cell by a lattice polygon whose edges are horizontal,
\* vertical or diagonal: each unit square of the lattice is cut by its two
\* diagonals into four triangles, each wholly inside or wholly outside; a
\* triangle is tested at its centroid (coordinates scaled by 6) by the
\* even-odd rule over all rings.
EdgeCrossesRay(px, py, a, b) ==
    LET ax == 6 * a.x
        ay == 6 * a.y
        bx == 6 * b.x
        by == 6 * b.y
    IN  /\ (ay > py) # (by > py)
        /\ IF by > ay
           THEN (px - ax) * (by - ay) < (py - ay) * (bx - ax)
           ELSE (px - ax) * (by - ay) > (py - ay) * (bx - ax)

InsidePolygon(px, py, rings) ==
    Cardinality({e \in {<<r, i>> : r \in 1 .. Len(rings), i \in 1 .. 8} :
                    /\ e[2] < Len(rings[e[1]])
                    /\ EdgeCrossesRay(px, py, rings[e[1]][e[2]], rings[e[1]][e[2] + 1])})
        % 2 = 1

Centroids(x, y) ==
    {<<6 * x + 3, 6 * y + 1>>, <<6 * x + 3, 6 * y + 5>>,
     <<6 * x + 1, 6 * y + 3>>, <<6 * x + 5, 6 * y + 3>>}

TrueCoverage(rings, box) ==
    (Cardinality({q \in UNION {{<<x, y, p>> : p \in Centroids(x, y)} :
                                  <<x, y>> \in (box.xmin .. box.xmax - 1)
                                                \X (box.ymin .. box.ymax - 1)} :
                     InsidePolygon(q[3][1], q[3][2], rings)})
        * CovOne) \div (4 * BoxArea(box))

RECURSIVE SumSeq(_, _)
SumSeq(q, i) == IF i > Len(q) THEN 0 ELSE q[i] + SumSeq(q, i + 1)

\* the weight a pair of tables gives to cell (r, c): 1 per run over it, the
\* weight of each edge at it
EmittedWeight(runs, edges, r, c) ==
    SumSeq([i \in 1 .. Len(runs) |->
               IF runs[i].row = r /\ runs[i].col_start <= c /\ c <= runs[i].col_end
               THEN CovOne ELSE 0], 1)
    + SumSeq([i \in 1 .. Len(edges) |->
               IF edges[i].row = r /\ edges[i].col = c THEN edges[i].weight ELSE 0], 1)

\* |a - b| <= 1e-5, in units of 1 / CovOne
WithinTol(a, b) == Abs(a - b) <= CovOne \div 100000

\* the records of two tables as (id, row, set of columns)
Cells(runs, edges) ==
    [i \in 1 .. Len(runs) |->
        [id |-> runs[i].id, row |-> runs[i].row,
         cols |-> runs[i].col_start .. runs[i].col_end]]
    \o [i \in 1 .. Len(edges) |->
        [id |-> edges[i].id, row |-> edges[i].row, cols |-> {edges[i].col}]]

PairwiseDisjoint(recs) ==
    \A i, j \in 1 .. Len(recs) :
        (i < j /\ recs[i].id = recs[j].id /\ recs[i].row = recs[j].row)
            => recs[i].cols \cap recs[j].cols = {}

\* ---------------------------------------------------------------------
\* Properties
\* ---------------------------------------------------------------------

\* C1: every run and edge the scanline rasterizer emits lies in the grid:
\* 1 <= row <= nrow, 1 <= col <= ncol for an edge, and
\* 1 <= col_start <= col_end <= ncol for a run, also for polygons that reach
\* beyond the extent and for runs seeded from a padding column.
RecordsInGrid ==
    IsScanline =>
        /\ \A i \in 1 .. Len(all_runs) :
              /\ 1 <= all_runs[i].row /\ all_runs[i].row <= req.nrow
              /\ 1 <= all_runs[i].col_start
              /\ all_runs[i].col_start <= all_runs[i].col_end
              /\ all_runs[i].col_end <= req.ncol
        /\ \A i \in 1 .. Len(all_edges) :
              /\ 1 <= all_edges[i].row /\ all_edges[i].row <= req.nrow
              /\ 1 <= all_edges[i].col /\ all_edges[i].col <= req.ncol

\* C1 witness: a polygon with vertices left and right of the extent has
\* been swept and a run from column 1 to column ncol was emitted between the
\* two padding columns
RunAcrossGridFromPadding ==
    /\ SinglePolygonDone(1)
    /\ \E i, j \in 1 .. Len(req.wkb_list[1].geom.rings[1]) :
          /\ req.wkb_list[1].geom.rings[1][i].x < 0
          /\ req.wkb_list[1].geom.rings[1][j].x > req.ncol * dx
    /\ \E i \in 1 .. Len(all_runs) :
          all_runs[i].col_start = 1 /\ all_runs[i].col_end = req.ncol

\* the polygon components of every geometry of the request have pairwise
\* disjoint envelopes
PartsDisjoint(g) ==
    \A i, j \in 1 .. Len(Flatten(g)) :
        i < j => ~ BoxIntersects(geos_get_component_boxes(Flatten(g)[i])[1],
                                 geos_get_component_boxes(Flatten(g)[j])[1])
DisjointParts ==
    /\ IsScanline
    /\ \A n \in 1 .. Len(req.wkb_list) :
          req.wkb_list[n].kind = "geom" => PartsDisjoint(req.wkb_list[n].geom)

\* C2 as stated: for one id and one row, the column ranges of all runs and
\* the columns of all edges are pairwise disjoint, also for a MULTIPOLYGON
\* or GEOMETRYCOLLECTION (taken here with pairwise disjoint components).
RecordsDisjointPerId ==
    DisjointParts => PairwiseDisjoint(Cells(all_runs, all_edges))

\* C2 amended: the records one POLYGON component emits are pairwise disjoint
\* in every row; the components of one geometry are swept one by one and
\* records of different components may cover the same cell.
ComponentRecordsDisjoint ==
    IsScanline => PairwiseDisjoint(Cells(ComponentRuns, ComponentEdges))

\* C2 witness: a component has emitted a run and, in the next cell of the
\* row, an edge
ComponentRunAndEdgeInRow ==
    /\ IsScanline
    /\ pc = "component"
    /\ \E i \in 1 .. Len(ComponentRuns), j \in 1 .. Len(ComponentEdges) :
          /\ ComponentRuns[i].row = ComponentEdges[j].row
          /\ ComponentRuns[i].col_end + 1 = ComponentEdges[j].col

\* C3: for a polygon with one hole, the weight emitted for each grid cell
\* equals the weight emitted for the polygon without the hole minus the
\* coverage of the hole in the cell, within tolerance.
HoleSubtracted ==
    SinglePolygonDone(2) =>
        LET poly == req.wkb_list[1].geom
            shell == process_geometry(full_grid, Polygon(<<poly.rings[1]>>), 1)
        IN  \A r \in 1 .. req.nrow, c \in 1 .. req.ncol :
                WithinTol(EmittedWeight(all_runs, all_edges, r, c),
                          EmittedWeight(shell.runs, shell.edges, r, c)
                              - TrueCoverage(<<poly.rings[2]>>, CellBox(r, c)))

\* C4: for one polygon, the run lengths plus the edge weights sum to the
\* area of the polygon clipped to the extent, in cells, within 1e-5.
AreaConserved ==
    (SinglePolygonDone(1) \/ SinglePolygonDone(2)) =>
        WithinTol(
            SumSeq([i \in 1 .. Len(all_runs) |->
                       (all_runs[i].col_end - all_runs[i].col_start + 1) * CovOne], 1)
            + SumSeq([i \in 1 .. Len(all_edges) |-> all_edges[i].weight], 1),
            SumSeq([n \in 1 .. req.nrow * req.ncol |->
                       TrueCoverage(req.wkb_list[1].geom.rings,
                                    CellBox(((n - 1) \div req.ncol) + 1,
                                            ((n - 1) % req.ncol) + 1))], 1))

\* the merged records of row sr of the row table
MergedRow(sr) == MergeSameCol(SortByCol(row_data[sr], 1, <<>>), 1, <<>>)

\* C5: every emitted edge has 0 < weight < 1, from the winding sweep and from
\* dense_to_sparse alike; a cell whose aggregated coverage (a merged record
\* of the sweep, a cell of the dense matrix) is <= 0 or >= 1 is no edge.
EdgeWeightsStrictlyInside ==
    /\ \A i \in 1 .. Len(all_edges) :
          0 < all_edges[i].weight /\ all_edges[i].weight < CovOne
    /\ (IsScanline /\ pc = "rings") =>
          \A sr \in 1 .. Len(row_data) : \A n \in 1 .. Len(MergedRow(sr)) :
              LET mc == MergedRow(sr)[n]
              IN  (mc.coverage <= 0 \/ mc.coverage >= CovOne)
                      => BoundaryEdge(mc, sg.row_off + sr, k + 1) = <<>>
    /\ (IsDense /\ pc = "done") =>
          LET rci == req.wkb_list[1].rci
          IN  \A i \in 0 .. rci.sub_rows - 1, j \in 0 .. rci.sub_cols - 1 :
                  LET w == rci.mat[i * rci.sub_cols + j + 1]
                  IN  (w <= 0 \/ w >= CovOne) =>
                          ~ \E e \in 1 .. Len(all_edges) :
                                /\ all_edges[e].row = rci.row_off + i + 1
                                /\ all_edges[e].col = rci.col_off + j + 1

\* C5 witness: a dense matrix holding a weight just below 1 - tol, a weight
\* of 1 - tol and a weight of 0 has been converted, and the first is an edge
DenseThresholdsConverted ==
    /\ IsDense
    /\ pc = "done"
    /\ \E a, b, c \in DOMAIN req.wkb_list[1].rci.mat :
          /\ req.wkb_list[1].rci.mat[a] = CovOne - Tol - 1
          /\ req.wkb_list[1].rci.mat[b] = CovOne - Tol
          /\ req.wkb_list[1].rci.mat[c] = 0
    /\ \E e \in 1 .. Len(all_edges) : all_edges[e].weight = CovOne - Tol - 1

\* C6: if processing geometry k throws at any point, the output holds no
\* run and no edge with id k.
FailedGeometryLeavesNoRecord ==
    \A id \in failed :
        /\ \A i \in 1 .. Len(all_runs) : all_runs[i].id # id
        /\ \A i \in 1 .. Len(all_edges) : all_edges[i].id # id

\* C7: on every exit path of cpp_scanline_burn the context, the WKB reader
\* and every parsed geometry have been released, and a parsed geometry is
\* released before the next one is parsed.
HandlesReleasedOnExit ==
    /\ geoms_live \subseteq {k}
    /\ (IsScanline /\ pc \in {"done", "escaped"}) =>
          /\ ctx # "live"
          /\ wkb_reader # "live"
          /\ geoms_live = {}

IdsNonDecreasing(q) == \A i, j \in 1 .. Len(q) : i < j => q[i].id <= q[j].id

\* rows do not decrease and, within a row, columns do not decrease
RunsOrdered(q) ==
    \A i, j \in 1 .. Len(q) :
        (i < j /\ q[i].id = q[j].id) =>
            \/ q[i].row < q[j].row
            \/ q[i].row = q[j].row /\ q[i].col_start <= q[j].col_start

EdgesOrdered(q) ==
    \A i, j \in 1 .. Len(q) :
        (i < j /\ q[i].id = q[j].id) =>
            \/ q[i].row < q[j].row
            \/ q[i].row = q[j].row /\ q[i].col <= q[j].col

\* rows do not decrease and, within a row, columns increase
RunsIncreasing(q) ==
    \A i, j \in 1 .. Len(q) :
        i < j =>
            \/ q[i].row < q[j].row
            \/ q[i].row = q[j].row /\ q[i].col_end < q[j].col_start

EdgesIncreasing(q) ==
    \A i, j \in 1 .. Len(q) :
        i < j =>
            \/ q[i].row < q[j].row
            \/ q[i].row = q[j].row /\ q[i].col < q[j].col

\* C8 as stated: in both tables ids are non-decreasing, within one id rows
\* do not decrease, and within one row runs and edges are in column order
\* (taken here for geometries with pairwise disjoint components).
OutputOrdered ==
    DisjointParts =>
        /\ IdsNonDecreasing(all_runs) /\ IdsNonDecreasing(all_edges)
        /\ RunsOrdered(all_runs) /\ EdgesOrdered(all_edges)

\* C8 amended: ids are non-decreasing along both tables; within the records
\* of one POLYGON component rows are increasing and, within a row, runs and
\* edges are in increasing column order.  The components of a MULTIPOLYGON
\* or a collection follow one another under the same id, each starting again
\* at its own first row.
ComponentOutputOrdered ==
    IsScanline =>
        /\ IdsNonDecreasing(all_runs) /\ IdsNonDecreasing(all_edges)
        /\ RunsIncreasing(ComponentRuns) /\ EdgesIncreasing(ComponentEdges)

\* C8 witness: a component has emitted, in one row, an interior run and
\* after it the unit run of a fully covered boundary cell, and records in a
\* second row
ComponentTwoRunsTwoRows ==
    /\ IsScanline
    /\ pc = "component"
    /\ \E i, j, n \in 1 .. Len(ComponentRuns) :
          /\ i < j
          /\ ComponentRuns[i].row = ComponentRuns[j].row
          /\ ComponentRuns[n].row > ComponentRuns[i].row

\* C9: after any number of components of a geometry have been processed,
\* the records with the geometry's id are the records of each of these
\* components processed alone with that id, in order; no component's
\* coverage or winding reaches the records of another.
ComponentsIndependent ==
    (IsScanline /\ pc = "component") =>
        LET alone == ProcessComponents(full_grid, comps, ci - 1, k + 1, 1)
        IN  /\ SelectSeq(all_runs, LAMBDA r : r.id = k + 1) = alone.runs
            /\ SelectSeq(all_edges, LAMBDA e : e.id = k + 1) = alone.edges

\* C9 witness: both components of a two-component geometry have been swept,
\* their envelopes are disjoint, they lie in the same grid cell, and each
\* emitted a record
TwoDisjointComponentsSwept ==
    /\ IsScanline
    /\ pc = "component"
    /\ Len(comps) = 2
    /\ ci = 3
    /\ ~ BoxIntersects(geos_get_component_boxes(comps[1])[1],
                       geos_get_component_boxes(comps[2])[1])
    /\ \E i \in 1 .. mark.edges, j \in mark.edges + 1 .. Len(all_edges) :
          /\ all_edges[i].row = all_edges[j].row
          /\ all_edges[i].col = all_edges[j].col

NotTouching(a, b) == a.col_end + 1 < b.col_start \/ b.col_end + 1 < a.col_start
NotOverlapping(a, b) == a.col_end < b.col_start \/ b.col_end < a.col_start

\* C10 as stated: no two runs of one polygon in one row are adjacent or
\* overlapping.
RunsMaximal ==
    \A i, j \in 1 .. Len(all_runs) :
        (i < j /\ all_runs[i].id = all_runs[j].id /\ all_runs[i].row = all_runs[j].row)
            => NotTouching(all_runs[i], all_runs[j])

\* C10 amended: the runs dense_to_sparse emits are maximal: no two runs of a
\* row touch, and the cells next to a run in the matrix are not fully
\* covered.  The runs the winding sweep emits for one polygon component
\* never overlap, but they need not be maximal: a fully covered boundary
\* cell is a unit run of its own, next to an interior run or to another unit
\* run.
RunsMaximalFromDense ==
    /\ IsScanline =>
          \A i, j \in 1 .. Len(ComponentRuns) :
              (i < j /\ ComponentRuns[i].row = ComponentRuns[j].row)
                  => NotOverlapping(ComponentRuns[i], ComponentRuns[j])
    /\ (IsDense /\ pc = "done") =>
          LET rci == req.wkb_list[1].rci
              w(r, c) == rci.mat[(r - rci.row_off - 1) * rci.sub_cols
                                 + (c - rci.col_off - 1) + 1]
          IN  /\ RunsMaximal
              /\ \A i \in 1 .. Len(all_runs) :
                    /\ all_runs[i].col_start - 1 > rci.col_off
                          => w(all_runs[i].row, all_runs[i].col_start - 1) < CovOne - Tol
                    /\ all_runs[i].col_end + 1 <= rci.col_off + rci.sub_cols
                          => w(all_runs[i].row, all_runs[i].col_end + 1) < CovOne - Tol

\* C10 witness: dense_to_sparse has emitted a run of two cells
DenseRunOfTwoCells ==
    /\ IsDense
    /\ pc = "done"
    /\ \E i \in 1 .. Len(all_runs) : all_runs[i].col_end > all_runs[i].col_start


\* ---------------------------------------------------------------------
\* C11: every record appended while the loop is at the element with 1-based
\* index k + 1 carries id = k + 1 and no earlier record is altered; the loop
\* index only ever moves on by one, and an element that appends nothing
\* (empty buffer, unparsable WKB, empty geometry, failed geometry) moves it
\* on all the same, so the ids of later geometries are not shifted.
\* ---------------------------------------------------------------------
IdsFollowIndex ==
    [][ /\ Len(all_runs') >= Len(all_runs)
        /\ Len(all_edges') >= Len(all_edges)
        /\ SubSeq(all_runs', 1, Len(all_runs)) = all_runs
        /\ SubSeq(all_edges', 1, Len(all_edges)) = all_edges
        /\ \A i \in Len(all_runs) + 1 .. Len(all_runs') : all_runs'[i].id = k + 1
        /\ \A i \in Len(all_edges) + 1 .. Len(all_edges') : all_edges'[i].id = k + 1
        /\ k' \in {k, k + 1}
        /\ (InLoop /\ Item.kind \in {"empty_buffer", "bad_wkb", "empty_geom"})
              => k' = k + 1
        /\ failed' # failed => (k' = k + 1 /\ failed' = failed \cup {k + 1})
        /\ pc' = "done" => k = Len(req.wkb_list) ]_vars

\* the call returned; the first element was skipped or failed and the second
\* one left records, all of them with id 2
SkippedThenEmitted ==
    /\ pc = "done"
    /\ Len(req.wkb_list) = 2
    /\ \/ req.wkb_list[1].kind \in {"empty_buffer", "bad_wkb", "empty_geom"}
       \/ 1 \in failed
    /\ Len(all_runs) + Len(all_edges) > 0
    /\ \A i \in 1 .. Len(all_runs) : all_runs[i].id = 2
    /\ \A i \in 1 .. Len(all_edges) : all_edges[i].id = 2


\* ---------------------------------------------------------------------
\* C12: a call with ncol <= 0, nrow <= 0, xmax <= xmin or ymax <= ymin never
\* gets past its start: it ends in the hard error with no context, no reader,
\* no geometry parsed or processed and nothing accumulated to return; and the
\* hard error of the argument checks is raised for such calls only.
\* ---------------------------------------------------------------------
InvalidArgumentsFailFirst ==
    LET invalid == \/ req.ncol <= 0
                   \/ req.nrow <= 0
                   \/ req.xmax <= req.xmin
                   \/ req.ymax <= req.ymin
    IN  /\ invalid => /\ pc \in {"start", "error"}
                      /\ ctx = "none"
                      /\ wkb_reader = "none"
                      /\ geoms_live = {}
                      /\ k = 0
                      /\ comps = <<>>
                      /\ all_runs = <<>>
                      /\ all_edges = <<>>
                      /\ warnings = <<>>
        /\ pc = "error" => invalid

\* the call failed on a degenerate extent although both dimensions are
\* positive and the list holds a geometry
DegenerateExtentStopped ==
    /\ pc = "error"
    /\ req.ncol > 0
    /\ req.nrow > 0
    /\ req.xmax <= req.xmin
    /\ Len(req.wkb_list) > 0


\* the geometry library raises while the n-th element is processed
Throws(n) ==
    /\ req.engine = "scanline"
    /\ req.wkb_list[n].kind = "geom"
    /\ \E c \in 1 .. Len(Flatten(req.wkb_list[n].geom)) :
           Flatten(req.wkb_list[n].geom)[c].lib_error

RECURSIVE WarnedIndices(_)
\* the indices from n on of the elements that cannot be parsed or that throw
WarnedIndices(n) ==
    IF n > Len(req.wkb_list) THEN <<>>
    ELSE IF req.wkb_list[n].kind = "bad_wkb" \/ Throws(n)
         THEN <<n>> \o WarnedIndices(n + 1)
         ELSE WarnedIndices(n + 1)

\* what the n-th element yields when it is the only element of the list,
\* numbered n
AloneRecords(n) ==
    LET it == req.wkb_list[n]
    IN  IF it.kind # "geom" THEN [runs |-> <<>>, edges |-> <<>>]
        ELSE IF req.engine = "dense"
        THEN dense_to_sparse(it.rci.mat, it.rci.sub_rows, it.rci.sub_cols,
                             it.rci.row_off, it.rci.col_off, n)
        ELSE LET cs == Flatten(it.geom)
             IN  ProcessComponents(full_grid, cs, Len(cs), n, 1)

Mirrored(ring) == [i \in 1 .. Len(ring) |-> ring[Len(ring) + 1 - i]]

\* ---------------------------------------------------------------------
\* C14: when the walk of a ring ends and its cells are aggregated, the row
\* table is exactly the one walk_ring produces from the table before for the
\* same ring given in the opposite coordinate order with the opposite CCW
\* flag.
\* ---------------------------------------------------------------------
OrientationInvariant ==
    [][ (pc = "walking" /\ pc' = "rings") =>
            LET ring == comps[ci].rings[ri]
                other == walk_ring(Mirrored(ring), ~ geos_is_ccw(ring), ri = 1,
                                   sg.subgrid, row_data,
                                   sg.sub_rows, sg.sub_cols, sg.col_off)
            IN  /\ polygon_signed_area(ring) # 0
                /\ geos_is_ccw(Mirrored(ring)) = ~ geos_is_ccw(ring)
                /\ ~ other.threw
                /\ row_data' = other.row_data ]_vars

\* a ring given clockwise has been walked and has left records in the row
\* table
ClockwiseRingWalked ==
    /\ pc = "rings"
    /\ ri > 1
    /\ ~ geos_is_ccw(comps[ci].rings[ri - 1])
    /\ \E r \in 1 .. Len(row_data) : Len(row_data[r]) > 0


\* ---------------------------------------------------------------------
\* C15 (as stated): the call for the band polygon on the 2x2 grid returns
\* exactly the runs (1,1,2,1) and (2,1,2,1) and no edges.
\* ---------------------------------------------------------------------
BandFullyCovered ==
    (req = BandRequest /\ pc = "done") =>
        /\ all_runs = << GridRun(1, 1, 2, 1), GridRun(2, 1, 2, 1) >>
        /\ all_edges = <<>>


\* C15 (amended): the band covers the lower half of row 1 and the upper half
\* of row 2, and the call returns no run and the four edges (1,1), (1,2),
\* (2,1), (2,2) with weight one half each, in that order, under id 1.
BandHalfCovered ==
    (req = BandRequest /\ pc = "done") =>
        /\ all_runs = <<>>
        /\ all_edges = << GridEdge(1, 1, CovOne \div 2, 1), GridEdge(1, 2, CovOne \div 2, 1),
                          GridEdge(2, 1, CovOne \div 2, 1), GridEdge(2, 2, CovOne \div 2, 1) >>
        /\ warnings = <<>>

\* the call for the band polygon returned four records, and the band does cover
\* one half of each of the four cells
BandReturned ==
    /\ req = BandRequest
    /\ pc = "done"
    /\ Len(all_runs) + Len(all_edges) = 4
    /\ \A r \in 1 .. 2 : \A c \in 1 .. 2 :
          TrueCoverage(BandPolygon.rings, CellBox(r, c)) = CovOne \div 2


\* the component that began last has been swept and its row table is still
\* at hand
ComponentSwept == pc = "component" /\ row_data # <<>>

\* the winding accumulated over the first n merged records of a row
WindingAfter(merged, n) ==
    SumSeq([i \in 1 .. n |-> merged[i].winding_delta], 1)

\* the number of elements of q that satisfy Test
CountSeq(q, Test(_)) == Len(SelectSeq(q, Test))

\* ---------------------------------------------------------------------
\* C16: in the sweep of a component, for every two consecutive merged records
\* of a row, the run over the columns strictly between them (1-based
\* prev_col + 2 .. mc.col) is emitted, once, exactly when the winding
\* accumulated before the later record is not 0 and at least one column lies
\* strictly between them; a run of the component never covers a column
\* strictly between two records across which the winding is 0.
\* ---------------------------------------------------------------------
InteriorRunsFollowWinding ==
    ComponentSwept =>
        \A sr \in 1 .. Len(row_data) :
            LET m == MergedRow(sr)
                full_row == sg.row_off + sr
            IN  \A n \in 2 .. Len(m) :
                    LET w == WindingAfter(m, n - 1)
                        between == m[n].col > m[n - 1].col + 1
                        run == GridRun(full_row, m[n - 1].col + 2, m[n].col, k + 1)
                    IN  /\ CountSeq(ComponentRuns, LAMBDA r : r = run)
                              = IF w # 0 /\ between THEN 1 ELSE 0
                        /\ (w = 0 /\ between) =>
                              \A i \in 1 .. Len(ComponentRuns) :
                                  ComponentRuns[i].row = full_row =>
                                      \/ ComponentRuns[i].col_end < m[n - 1].col + 2
                                      \/ ComponentRuns[i].col_start > m[n].col

\* a swept row in which two consecutive records at columns of the grid have a
\* column between them and non-zero winding across it, and the run over the
\* columns between them is among the runs of the component
RunBetweenBoundaryCells ==
    /\ ComponentSwept
    /\ \E sr \in 1 .. Len(row_data) :
          LET m == MergedRow(sr)
          IN  \E n \in 2 .. Len(m) :
                  /\ m[n - 1].col >= sg.col_off
                  /\ m[n].col > m[n - 1].col + 1
                  /\ WindingAfter(m, n - 1) # 0
                  /\ \E i \in 1 .. Len(ComponentRuns) :
                        ComponentRuns[i]
                            = GridRun(sg.row_off + sr, m[n - 1].col + 2, m[n].col, k + 1)


\* ---------------------------------------------------------------------
\* C17: in the sweep of a component every merged record of a row leaves
\* exactly one of: the edge (row, col + 1, coverage, id) and nothing else at
\* its cell when tol < coverage < 1 - tol; the unit run (row, col + 1, col + 1,
\* id) and nothing else when coverage >= 1 - tol; nothing at its cell when
\* coverage <= tol.  Whichever it is, its winding delta counts and its column
\* is the previous column for the record after it: the run that starts right
\* after its column exists exactly when the winding including its delta is
\* not 0 and the next record is more than one column away.
\* ---------------------------------------------------------------------
BoundaryCellsClassified ==
    ComponentSwept =>
        \A sr \in 1 .. Len(row_data) :
            LET m == MergedRow(sr)
                full_row == sg.row_off + sr
            IN  \A n \in 1 .. Len(m) :
                    LET cov == m[n].coverage
                        col == m[n].col + 1
                        edges_here == SelectSeq(ComponentEdges,
                                          LAMBDA e : e.row = full_row /\ e.col = col)
                        runs_here == SelectSeq(ComponentRuns,
                                         LAMBDA r : /\ r.row = full_row
                                                    /\ r.col_start <= col
                                                    /\ col <= r.col_end)
                        runs_after == SelectSeq(ComponentRuns,
                                          LAMBDA r : /\ r.row = full_row
                                                     /\ r.col_start = col + 1
                                                     /\ r.col_start <= r.col_end)
                    IN  /\ (Tol < cov /\ cov < CovOne - Tol) =>
                              /\ edges_here = << GridEdge(full_row, col, cov, k + 1) >>
                              /\ runs_here = <<>>
                        /\ cov >= CovOne - Tol =>
                              /\ edges_here = <<>>
                              /\ runs_here = << GridRun(full_row, col, col, k + 1) >>
                        /\ cov <= Tol =>
                              /\ edges_here = <<>>
                              /\ runs_here = <<>>
                        /\ n < Len(m) =>
                              ((WindingAfter(m, n) # 0 /\ m[n + 1].col > m[n].col + 1)
                                  <=> \E i \in 1 .. Len(runs_after) :
                                          runs_after[i].col_end = m[n + 1].col)

\* a swept row whose merged records show all three outcomes: one left
\* nothing, one left an edge, one left a unit run
RowWithAllThreeOutcomes ==
    /\ ComponentSwept
    /\ \E sr \in 1 .. Len(row_data) :
          LET m == MergedRow(sr)
          IN  /\ \E n \in 1 .. Len(m) : m[n].coverage <= Tol
              /\ \E n \in 1 .. Len(m) : Tol < m[n].coverage /\ m[n].coverage < CovOne - Tol
              /\ \E n \in 1 .. Len(m) :
                     /\ m[n].coverage >= CovOne - Tol
                     /\ \E i \in 1 .. Len(ComponentRuns) :
                           ComponentRuns[i]
                               = GridRun(sg.row_off + sr, m[n].col + 1, m[n].col + 1, k + 1)


\* a swept row whose first merged record is in the left padding column of a
\* subgrid that starts at the first column of the grid (virtual column -1),
\* carries a winding delta, and is followed by a record at 0-based column
\* c >= 1
LeftHaloRow(sr) ==
    /\ sg.col_off = 0
    /\ Len(MergedRow(sr)) >= 2
    /\ MergedRow(sr)[1].col = -1
    /\ MergedRow(sr)[1].winding_delta # 0
    /\ MergedRow(sr)[2].col >= 1

\* ---------------------------------------------------------------------
\* C18: in the sweep of a component, a row whose first merged record is in
\* the left padding column (virtual column -1) and leaves the winding
\* non-zero, with the next record at 0-based column c >= 1, gets the run
\* (row, 1, c, id), once; and no row gets a run that ends before the column
\* of its first record, so a row without a record in the padding column is
\* not seeded.
\* ---------------------------------------------------------------------
LeftHaloSeedsRun ==
    ComponentSwept =>
        \A sr \in 1 .. Len(row_data) :
            LET m == MergedRow(sr)
                row_runs == SelectSeq(ComponentRuns, LAMBDA r : r.row = sg.row_off + sr)
            IN  /\ LeftHaloRow(sr) =>
                      /\ Len(row_runs) > 0
                      /\ row_runs[1] = GridRun(sg.row_off + sr, 1, m[2].col, k + 1)
                      /\ CountSeq(row_runs, LAMBDA r : r.col_start = 1) = 1
                /\ Len(m) > 0 =>
                      \A i \in 1 .. Len(row_runs) : row_runs[i].col_end >= m[1].col + 1

\* a swept row seeded from the left padding column: the run from column 1 to
\* the column of the second record is among the runs of the component
LeftHaloRowSwept ==
    /\ ComponentSwept
    /\ \E sr \in 1 .. Len(row_data) :
          /\ LeftHaloRow(sr)
          /\ \E i \in 1 .. Len(ComponentRuns) :
                ComponentRuns[i] = GridRun(sg.row_off + sr, 1, MergedRow(sr)[2].col, k + 1)


\* the winding delta the midpoint rule gives one traversal of a cell, before
\* the sign of the ring: -1 when it enters above the y-midpoint of the cell
\* and leaves below it, +1 the other way round, 0 when it does not have both
\* an entry side and an exit side or does not straddle the midpoint strictly
StraddleDelta(box, t) ==
    IF t.entry_side = "NONE" \/ t.exit_side = "NONE" THEN 0
    ELSE IF 2 * t.coords[1].y > box.ymin + box.ymax
            /\ 2 * t.coords[Len(t.coords)].y < box.ymin + box.ymax THEN -1
    ELSE IF 2 * t.coords[1].y < box.ymin + box.ymax
            /\ 2 * t.coords[Len(t.coords)].y > box.ymin + box.ymax THEN 1
    ELSE 0

\* the sum of StraddleDelta over the traversals the walk recorded for a cell
CellStraddle(key) ==
    IF key \in DOMAIN walk.cells
    THEN SumSeq([i \in 1 .. Len(walk.cells[key]) |->
                    StraddleDelta(grid_cell(sg.subgrid, key[1], key[2]),
                                  walk.cells[key][i])], 1)
    ELSE 0

\* the winding delta and the coverage a row of the table holds at a column
WindingOf(row_vec, col) ==
    SumSeq([i \in 1 .. Len(row_vec) |->
               IF row_vec[i].col = col THEN row_vec[i].winding_delta ELSE 0], 1)
CoverageOf(row_vec, col) ==
    SumSeq([i \in 1 .. Len(row_vec) |->
               IF row_vec[i].col = col THEN row_vec[i].coverage ELSE 0], 1)

\* the walk of a ring is over and its cells are being aggregated
RingAggregated == pc = "walking" /\ pc' = "rings"

\* ---------------------------------------------------------------------
\* C19: when the cells of a ring are aggregated, the row table is the one
\* the cells outside the padding rows give alone; the records at columns of
\* the subgrid are the ones the cells outside the padding columns give
\* alone; a padding-column cell of a grid row adds the winding delta of its
\* traversals at virtual column col_off - 1 (left) or col_off + sub_cols
\* (right); and every record of the table is at a column of the subgrid or
\* at one of the two virtual columns, where its coverage is 0.
\* ---------------------------------------------------------------------
PaddingCellsHandled ==
    [][ RingAggregated =>
          LET keys == SortedKeys(DOMAIN walk.cells)
              row_keys == SelectSeq(keys, LAMBDA q : q[1] >= 1 /\ q[1] <= sg.sub_rows)
              col_keys == SelectSeq(row_keys, LAMBDA q : q[2] >= 1 /\ q[2] <= sg.sub_cols)
              from_rows == AggregateCells(row_data, sg.subgrid, walk.cells, row_keys, 1,
                                          ri = 1, sg.sub_rows, sg.sub_cols, sg.col_off)
              from_cols == AggregateCells(row_data, sg.subgrid, walk.cells, col_keys, 1,
                                          ri = 1, sg.sub_rows, sg.sub_cols, sg.col_off)
              left == sg.col_off - 1
              right == sg.col_off + sg.sub_cols
              factor == IF ri = 1 THEN 1 ELSE -1
              InGrid(rec) == rec.col > left /\ rec.col < right
          IN  /\ row_data' = from_rows
              /\ Len(row_data') = sg.sub_rows
              /\ \A r \in 1 .. sg.sub_rows :
                    /\ SelectSeq(row_data'[r], InGrid) = SelectSeq(from_cols[r], InGrid)
                    /\ WindingOf(row_data'[r], left)
                          = WindingOf(row_data[r], left) + factor * CellStraddle(<<r, 0>>)
                    /\ WindingOf(row_data'[r], right)
                          = WindingOf(row_data[r], right)
                              + factor * CellStraddle(<<r, sg.sub_cols + 1>>)
                    /\ \A i \in 1 .. Len(row_data'[r]) :
                          /\ row_data'[r][i].col >= left
                          /\ row_data'[r][i].col <= right
                          /\ ~ InGrid(row_data'[r][i]) => row_data'[r][i].coverage = 0 ]_vars

\* every ring of a component has been aggregated, its walk went through
\* cells of a padding row, and the row table has a record at a virtual
\* padding column with a winding delta and coverage 0
PaddingRecordAfterAllRings ==
    /\ pc = "rings"
    /\ ri > Len(comps[ci].rings)
    /\ \E r \in 1 .. Len(row_data) : \E i \in 1 .. Len(row_data[r]) :
          /\ row_data[r][i].col \in {sg.col_off - 1, sg.col_off + sg.sub_cols}
          /\ row_data[r][i].winding_delta # 0
          /\ row_data[r][i].coverage = 0
    /\ \E j \in 1 .. Len(comps[ci].rings[1]) :
          \/ comps[ci].rings[1][j].y > sg.subgrid.ymax
          \/ comps[ci].rings[1][j].y < sg.subgrid.ymin


\* the column of the row table a cell of the padded subgrid is recorded at
FullCol(c) ==
    IF c < 1 THEN sg.col_off - 1
    ELSE IF c > sg.sub_cols THEN sg.col_off + sg.sub_cols
    ELSE sg.col_off + c - 1

\* ---------------------------------------------------------------------
\* C20: when the cells of a ring are aggregated, the winding delta the row
\* table holds for each cell of a grid row grows by the sum, over the
\* traversals of the cell that have an entry side and an exit side and whose
\* entry and exit points lie strictly on opposite sides of the y-midpoint of
\* the cell, of -1 (entry above) or +1 (entry below), times +1 for the
\* exterior ring and -1 for a hole; traversals that do not straddle the
\* midpoint and closed rings inside the cell add nothing, and the delta is
\* recorded whether or not the coverage at the cell changes.
\* ---------------------------------------------------------------------
WindingDeltaByMidpoint ==
    [][ RingAggregated =>
          \A r \in 1 .. sg.sub_rows : \A c \in 0 .. sg.sub_cols + 1 :
              WindingOf(row_data'[r], FullCol(c))
                  = WindingOf(row_data[r], FullCol(c))
                      + (IF ri = 1 THEN 1 ELSE -1) * CellStraddle(<<r, c>>) ]_vars

\* a ring has been aggregated, and a row of the table holds, at a column of
\* the subgrid, a record with a winding delta and coverage 0, and another
\* with coverage and no winding delta
DeltaWithoutCoverage ==
    /\ pc = "rings"
    /\ ri > 1
    /\ \E r \in 1 .. Len(row_data) :
          /\ \E i \in 1 .. Len(row_data[r]) :
                /\ row_data[r][i].col >= sg.col_off
                /\ row_data[r][i].col < sg.col_off + sg.sub_cols
                /\ row_data[r][i].winding_delta # 0
                /\ row_data[r][i].coverage = 0
          /\ \E i \in 1 .. Len(row_data[r]) :
                /\ row_data[r][i].winding_delta = 0
                /\ row_data[r][i].coverage # 0


\* ---------------------------------------------------------------------
\* C21: while the rings of a component are walked and aggregated the
\* component has no run and no edge in the accumulators; the scanline call
\* appends records only in the step taken when every ring of the component
\* has been aggregated, and the row table that step classifies is the one
\* obtained from an empty table by the exterior ring with sign +1 followed by
\* every hole with sign -1.
\* ---------------------------------------------------------------------
AggregateThenClassify ==
    /\ [](pc \in {"rings", "walking"} => (ComponentRuns = <<>> /\ ComponentEdges = <<>>))
    /\ [][ (IsScanline /\ (all_runs' # all_runs \/ all_edges' # all_edges)) =>
              /\ pc = "rings"
              /\ ri = Len(comps[ci].rings) + 1
              /\ row_data = WalkRings(comps[ci], 1, sg,
                                [row_data |-> [r \in 1 .. sg.sub_rows |-> <<>>],
                                 threw |-> FALSE]).row_data
              /\ \A r \in 1 .. Len(row_data) : \A c \in sg.col_off .. sg.col_off + sg.sub_cols - 1 :
                    CoverageOf(row_data[r], c)
                        = CoverageOf(walk_ring(comps[ci].rings[1], geos_is_ccw(comps[ci].rings[1]),
                                         TRUE, sg.subgrid, [q \in 1 .. sg.sub_rows |-> <<>>],
                                         sg.sub_rows, sg.sub_cols, sg.col_off).row_data[r], c)
                          - SumSeq([h \in 1 .. Len(comps[ci].rings) - 1 |->
                                CoverageOf(walk_ring(comps[ci].rings[h + 1],
                                               geos_is_ccw(comps[ci].rings[h + 1]),
                                               TRUE, sg.subgrid,
                                               [q \in 1 .. sg.sub_rows |-> <<>>],
                                               sg.sub_rows, sg.sub_cols, sg.col_off).row_data[r], c)],
                                   1) ]_vars

\* a component with a hole has been swept and left an edge at a cell the
\* hole passes through
HoleComponentSwept ==
    /\ ComponentSwept
    /\ ci > 1
    /\ Len(comps[ci - 1].rings) = 2
    /\ \E i \in 1 .. Len(ComponentEdges) :
          \E j \in 1 .. Len(comps[ci - 1].rings[2]) :
              LET q == comps[ci - 1].rings[2][j]
                  box == CellBox(ComponentEdges[i].row, ComponentEdges[i].col)
              IN  BoxContains(box, q)


\* the inner loop of the cell visit the walk is about to make
NextVisit ==
    InnerLoop(walk.coords, grid_cell(sg.subgrid, walk.row, walk.col),
              [trav |-> NoTraversal, pos |-> walk.pos,
               last_exit |-> walk.last_exit, threw |-> FALSE])

\* the cell visit the walk is about to make ends with an exit crossing
VisitCrosses ==
    /\ pc = "walking"
    /\ WalkRunning(walk)
    /\ ~ NextVisit.threw
    /\ NextVisit.trav.exit_side # "NONE"

\* the state of the inner loop at the moment the crossing of that visit is
\* computed: the traversal without the crossing point
AtCrossing ==
    [trav |-> [coords |-> SubSeq(NextVisit.trav.coords, 1, Len(NextVisit.trav.coords) - 1),
               entry_side |-> NextVisit.trav.entry_side,
               exit_side |-> "NONE"],
     pos |-> NextVisit.pos, last_exit |-> <<>>, threw |-> FALSE]

\* ---------------------------------------------------------------------
\* C22: whenever a cell visit of the ring walk computes an exit crossing,
\* pos >= 1 holds, no carry-over point is pending, the start point handed to
\* Box::crossing is coords[pos - 1], the last coordinate consumed from the
\* list, and the crossing is the one of the segment coords[pos - 1] ->
\* coords[pos] of the list with the cell.
\* ---------------------------------------------------------------------
CrossingFromOriginal ==
    VisitCrosses =>
        /\ NextVisit.pos >= 1
        /\ NextVisit.pos < Len(walk.coords)
        /\ CrossingStart(walk.coords, AtCrossing) = walk.coords[NextVisit.pos]
        /\ Back(NextVisit.trav.coords)
              = BoxCrossing(grid_cell(sg.subgrid, walk.row, walk.col),
                            walk.coords[NextVisit.pos],
                            walk.coords[NextVisit.pos + 1]).coord

\* a cell visit that enters at the interpolated carry-over point and leaves
\* by a crossing at once: the last coordinate of the traversal is the
\* carry-over point, which differs from the last coordinate consumed
CrossingAfterCarryOver ==
    /\ VisitCrosses
    /\ walk.last_exit # <<>>
    /\ Len(NextVisit.trav.coords) = 2
    /\ walk.last_exit[1] # walk.coords[NextVisit.pos]


\* the ring being walked, in the order it is walked in
WalkedRing ==
    IF geos_is_ccw(comps[ci].rings[ri]) THEN comps[ci].rings[ri]
    ELSE Mirrored(comps[ci].rings[ri])

\* the cell the walk of the ring starts in, and the traversals recorded for it
StartKey ==
    << get_row(sg.subgrid, WalkedRing[1].y), get_column(sg.subgrid, WalkedRing[1].x) >>
StartTraversals == IF StartKey \in DOMAIN walk.cells THEN walk.cells[StartKey] ELSE <<>>

\* the walk of a ring is over; the ring starts strictly inside a cell and
\* leaves it
StartedInsideAndLeft ==
    /\ pc = "walking"
    /\ ~ WalkRunning(walk)
    /\ ~ walk.threw
    /\ BoxStrictlyContains(grid_cell(sg.subgrid, StartKey[1], StartKey[2]), WalkedRing[1])
    /\ StartTraversals # <<>>
    /\ StartTraversals[1].exit_side # "NONE"

\* q ends with the sequence tail
EndsWith(q, tail) ==
    /\ Len(q) >= Len(tail)
    /\ SubSeq(q, Len(q) - Len(tail) + 1, Len(q)) = tail

\* ---------------------------------------------------------------------
\* C23: when the walk of a ring that starts strictly inside a cell and
\* leaves it is over, the first traversal of that cell has an exit side and
\* no entry side and is not valid; the coordinate list is the ring followed
\* by the coordinates of that traversal; the last traversal of the cell has
\* an entry side and an exit side, is valid, and ends with the closing vertex
\* followed by the coordinates of the first traversal; and the start vertex
\* is on exactly one valid traversal of the cell.
\* ---------------------------------------------------------------------
IncompleteInitialReprocessed ==
    StartedInsideAndLeft =>
        LET first == StartTraversals[1]
            last == StartTraversals[Len(StartTraversals)]
        IN  /\ first.entry_side = "NONE"
            /\ ~ IsValidTraversal(first)
            /\ walk.coords = WalkedRing \o first.coords
            /\ Len(StartTraversals) >= 2
            /\ traversed(last)
            /\ IsValidTraversal(last)
            /\ EndsWith(last.coords, <<Back(WalkedRing)>> \o first.coords)
            /\ Cardinality({i \in 1 .. Len(StartTraversals) :
                              /\ IsValidTraversal(StartTraversals[i])
                              /\ \E j \in 1 .. Len(StartTraversals[i].coords) :
                                    StartTraversals[i].coords[j] = WalkedRing[1]}) = 1

\* such a walk is over, and the last traversal of the start cell holds the
\* passage on both sides of the start vertex: a coordinate before the closing
\* vertex and the exit of the first traversal after it
PassageThroughStartCell ==
    /\ StartedInsideAndLeft
    /\ Len(StartTraversals[Len(StartTraversals)].coords)
          >= Len(StartTraversals[1].coords) + 2
    /\ Len(StartTraversals[1].coords) >= 2


\* ---------------------------------------------------------------------
\* C24: at every point of a ring walk between two cell visits, a pending
\* carry-over exit coordinate implies that pos has not yet reached the end of
\* the coordinate list; so when the walk stops, pos has consumed every
\* coordinate and no carry-over coordinate is pending.
\* ---------------------------------------------------------------------
NoPendingExitAtEnd ==
    (pc = "walking" /\ ~ walk.threw) =>
        /\ walk.pos <= Len(walk.coords)
        /\ walk.last_exit # <<>> => walk.pos < Len(walk.coords)
        /\ ~ WalkRunning(walk) => (walk.pos = Len(walk.coords) /\ walk.last_exit = <<>>)

\* a walk that carried an interpolated exit into its last cell visits has
\* stopped: the crossing before the last coordinate of the list differs from
\* that coordinate
WalkStoppedAfterCarryOver ==
    /\ pc = "walking"
    /\ ~ WalkRunning(walk)
    /\ ~ walk.threw
    /\ \E key \in DOMAIN walk.cells :
          \E i \in 1 .. Len(walk.cells[key]) :
              LET t == walk.cells[key][i]
              IN  /\ t.entry_side # "NONE"
                  /\ Len(t.coords) >= 2
                  /\ t.coords[2] = Back(walk.coords)
                  /\ t.coords[1] # walk.coords[Len(walk.coords) - 1]
                  /\ t.coords[1] # t.coords[2]


\* the dense coverage matrix of the request of cpp_burn_sparse
DenseRci == req.wkb_list[1].rci

\* ---------------------------------------------------------------------
\* C25: what dense_to_sparse returns for a dense matrix, laid back onto the
\* grid, is the classification of the matrix: the cell (i, j) is at row
\* row_offset + i + 1 and column col_offset + j + 1; a cell with
\* w >= 1 - tol is in exactly one run and is no edge; a cell with
\* 0 < w < 1 - tol is exactly one edge, with weight w, and in no run; a cell
\* with w <= 0 is in no record; and every record lies in one row of the
\* subgrid, between its first and its last column.
\* ---------------------------------------------------------------------
DensePartition ==
    (IsDense /\ pc = "done") =>
        LET rci == DenseRci
            rows == rci.row_off + 1 .. rci.row_off + rci.sub_rows
        IN  /\ \A i \in 0 .. rci.sub_rows - 1 : \A j \in 0 .. rci.sub_cols - 1 :
                  LET w == rci.mat[i * rci.sub_cols + j + 1]
                      full_row == rci.row_off + i + 1
                      full_col == rci.col_off + j + 1
                      runs_here == SelectSeq(all_runs,
                                       LAMBDA r : /\ r.row = full_row
                                                  /\ r.col_start <= full_col
                                                  /\ full_col <= r.col_end)
                      edges_here == SelectSeq(all_edges,
                                       LAMBDA e : e.row = full_row /\ e.col = full_col)
                  IN  /\ w >= CovOne - Tol => (Len(runs_here) = 1 /\ edges_here = <<>>)
                      /\ (0 < w /\ w < CovOne - Tol) =>
                            /\ runs_here = <<>>
                            /\ edges_here = << GridEdge(full_row, full_col, w, 1) >>
                      /\ w <= 0 => (runs_here = <<>> /\ edges_here = <<>>)
            /\ \A n \in 1 .. Len(all_runs) :
                  /\ all_runs[n].row \in rows
                  /\ rci.col_off + 1 <= all_runs[n].col_start
                  /\ all_runs[n].col_start <= all_runs[n].col_end
                  /\ all_runs[n].col_end <= rci.col_off + rci.sub_cols
            /\ \A n \in 1 .. Len(all_edges) :
                  /\ all_edges[n].row \in rows
                  /\ all_edges[n].col \in rci.col_off + 1 .. rci.col_off + rci.sub_cols

\* a matrix of two rows whose first row ends and whose second row begins
\* with a covered cell: the run of the first row is closed at the row end and
\* the second row has a run of its own
RunClosedAtRowEnd ==
    /\ IsDense
    /\ pc = "done"
    /\ DenseRci.sub_rows = 2
    /\ \E n \in 1 .. Len(all_runs) :
          all_runs[n].row = 1 /\ all_runs[n].col_end = DenseRci.sub_cols
    /\ \E n \in 1 .. Len(all_runs) :
          all_runs[n].row = 2 /\ all_runs[n].col_start = 1
    /\ all_edges # <<>>


\* the point of the boundary of a box at perimeter distance p
PointAtPd(box, p) ==
    LET h == box.ymax - box.ymin
        w == box.xmax - box.xmin
    IN  IF p <= h THEN Coord(box.xmin, box.ymin + p)
        ELSE IF p <= h + w THEN Coord(box.xmin + (p - h), box.ymax)
        ELSE IF p <= 2 * h + w THEN Coord(box.xmax, box.ymax - (p - h - w))
        ELSE Coord(box.xmax - (p - 2 * h - w), box.ymin)

IsCorner(box, q) == q.x \in {box.xmin, box.xmax} /\ q.y \in {box.ymin, box.ymax}

RECURSIVE CornersBack(_, _, _, _)
\* the corners met when going back along the perimeter (against growing
\* perimeter distance: "clockwise" in the terms of the source) from distance
\* d to distance arc - 1 after the point at perimeter distance from_pd
CornersBack(box, from_pd, d, arc) ==
    IF d >= arc THEN <<>>
    ELSE LET q == PointAtPd(box, (from_pd - d + BoxPerimeter(box)) % BoxPerimeter(box))
         IN  (IF IsCorner(box, q) THEN <<q>> ELSE <<>>)
                 \o CornersBack(box, from_pd, d + 1, arc)

\* a traversal of a cell of the grid from one point of the cell boundary to
\* a point of the boundary at another perimeter position
BoundaryToBoundary(box, t) ==
    /\ traversed(t)
    /\ Len(t.coords) >= 2
    /\ PerimeterDistance(box, Front(t.coords)) >= 0
    /\ PerimeterDistance(box, Back(t.coords)) >= 0
    /\ PerimeterDistance(box, Front(t.coords)) # PerimeterDistance(box, Back(t.coords))

\* the keys of the cells of the walk that are cells of the subgrid
GridKeys ==
    {key \in DOMAIN walk.cells :
        /\ key[1] >= 1 /\ key[1] <= sg.sub_rows
        /\ key[2] >= 1 /\ key[2] <= sg.sub_cols}

\* ---------------------------------------------------------------------
\* C26: for every cell of the grid and every traversal of it, recorded by a
\* ring walk, that runs from the cell boundary to the cell boundary at
\* another perimeter position, analytical_covered_fraction is the absolute
\* shoelace area, over the cell area, of the polygon traversal coordinates ++
\* the corners met strictly between the exit and the entry when going back
\* from the exit against growing perimeter distance (the source's clockwise)
\* ++ entry point; it lies in [0,1]; and where the traversal is the only
\* valid one of the cell and the polygon has one ring, it is the fraction of
\* the cell inside the polygon, which is the part to the left of the path.
\* ---------------------------------------------------------------------
AnalyticalFractionIsLeftArea ==
    (pc = "walking" /\ ~ WalkRunning(walk) /\ ~ walk.threw) =>
        \A key \in GridKeys :
            LET box == grid_cell(sg.subgrid, key[1], key[2])
                valid == SelectSeq(walk.cells[key], IsValidTraversal)
            IN  \A i \in 1 .. Len(walk.cells[key]) :
                    LET t == walk.cells[key][i]
                        exit_pd == PerimeterDistance(box, Back(t.coords))
                        entry_pd == PerimeterDistance(box, Front(t.coords))
                        arc == (exit_pd - entry_pd + BoxPerimeter(box)) % BoxPerimeter(box)
                        f == analytical_covered_fraction(box, t.coords)
                    IN  BoundaryToBoundary(box, t) =>
                            /\ f = Frac(polygon_signed_area(
                                            (t.coords \o CornersBack(box, exit_pd, 1, arc))
                                                \o <<Front(t.coords)>>), box)
                            /\ 0 <= f
                            /\ f <= CovOne
                            /\ (Len(valid) = 1 /\ valid[1] = t /\ Len(comps[ci].rings) = 1) =>
                                  WithinTol(f, TrueCoverage(comps[ci].rings, box))

\* a walk is over in which the only valid traversal of a cell of the grid
\* cuts the cell from boundary to boundary, with two corners on the arc from
\* its exit back to its entry, and covers neither nothing nor everything
TraversalCutsCell ==
    /\ pc = "walking"
    /\ ~ WalkRunning(walk)
    /\ ~ walk.threw
    /\ Len(comps[ci].rings) = 1
    /\ \E key \in GridKeys :
          LET box == grid_cell(sg.subgrid, key[1], key[2])
              valid == SelectSeq(walk.cells[key], IsValidTraversal)
          IN  /\ Len(valid) = 1
              /\ BoundaryToBoundary(box, valid[1])
              /\ Len(CornersBack(box, PerimeterDistance(box, Back(valid[1].coords)), 1,
                         (PerimeterDistance(box, Back(valid[1].coords))
                            - PerimeterDistance(box, Front(valid[1].coords))
                            + BoxPerimeter(box)) % BoxPerimeter(box))) = 2
              /\ analytical_covered_fraction(box, valid[1].coords) \notin {0, CovOne}


\* q is p with zero or more elements appended
Extends(q, p) == Len(q) >= Len(p) /\ SubSeq(q, 1, Len(p)) = p

\* ---------------------------------------------------------------------
\* C27: the output accumulators are append-only: every step of the call,
\* whether it processes a component, begins a later geometry, skips an
\* element or catches a failure, leaves every run and edge appended earlier
\* in place and unchanged; and the step that begins a component gives it a
\* row table of sub_rows empty rows, whatever table the component before it
\* left.
\* ---------------------------------------------------------------------
AccumulatorsAppendOnly ==
    [][ /\ Extends(all_runs', all_runs)
        /\ Extends(all_edges', all_edges)
        /\ (pc = "component" /\ pc' = "rings") =>
              /\ Len(row_data') = sg'.sub_rows
              /\ \A r \in 1 .. Len(row_data') : row_data'[r] = <<>> ]_vars

\* a component that is not the first of its geometry has begun with an empty
\* row table, after the sweep of an earlier component left records in the
\* accumulators and a filled row table, and after an earlier geometry failed
LaterComponentStartsEmpty ==
    /\ pc = "rings"
    /\ ri = 1
    /\ ci > 1
    /\ failed # {}
    /\ mark.runs + mark.edges > 0
    /\ \A r \in 1 .. Len(row_data) : row_data[r] = <<>>


\* all rings of the component are aggregated and the sweep is about to run
AllRingsAggregated ==
    IsScanline /\ pc = "rings" /\ ri > Len(comps[ci].rings)

\* ---------------------------------------------------------------------
\* C28: once all rings of a component (exterior and holes) are aggregated,
\* the winding deltas of all records of every row of the row table sum to
\* zero: the running winding of the sweep is 0 after the last record of the
\* row.
\* ---------------------------------------------------------------------
WindingBalanced ==
    AllRingsAggregated =>
        \A sr \in 1 .. Len(row_data) :
            WindingAfter(MergedRow(sr), Len(MergedRow(sr))) = 0


\* a step of the ring walk: one iteration of the outer loop that does not throw
WalkIteration == pc = "walking" /\ pc' = "walking" /\ walk' # walk

Dist(a, b) == IF a >= b THEN a - b ELSE b - a

\* ---------------------------------------------------------------------
\* C29: during a ring walk the current cell index stays inside the padded
\* grid, 0 <= row <= sub_rows + 1 and 0 <= col <= sub_cols + 1, at the start
\* and after every iteration (so row-- and col-- never act on 0 and row++
\* and col++ never pass the last padded index), and every iteration either
\* stays in its cell (no exit) or moves to a 4-neighbour: one of row and col
\* changes, by exactly one.
\* ---------------------------------------------------------------------
WalkStaysInPaddedGrid ==
    /\ [](pc = "walking" =>
            /\ 0 <= walk.row /\ walk.row <= sg.sub_rows + 1
            /\ 0 <= walk.col /\ walk.col <= sg.sub_cols + 1)
    /\ [][WalkIteration =>
            /\ Dist(walk'.row, walk.row) + Dist(walk'.col, walk.col) <= 1
            /\ (Dist(walk'.row, walk.row) + Dist(walk'.col, walk.col) = 0) =>
                  ~ WalkRunning(walk')]_vars

\* a ring walk in progress has visited padding cells above, below, left and
\* right of the grid: it went round the whole grid through the padding
WalkRoundTheGrid ==
    /\ pc = "walking"
    /\ \E key \in DOMAIN walk.cells : key[1] = 0
    /\ \E key \in DOMAIN walk.cells : key[1] = sg.sub_rows + 1
    /\ \E key \in DOMAIN walk.cells : key[2] = 0
    /\ \E key \in DOMAIN walk.cells : key[2] = sg.sub_cols + 1


\* ---------------------------------------------------------------------
\* C30: walk_ring terminates: a walk in progress leads to the end of its
\* outer loop (pos = |coords|) or to a throw that leaves the walk; every
\* iteration either advances pos or finds last_exit pending, consumes it and
\* moves to a neighbouring cell; and the coordinate list is extended (by the
\* incomplete-initial rule) only while it still has the length of the ring,
\* so at most once per ring.
\* ---------------------------------------------------------------------
WalkTerminates ==
    /\ (pc = "walking") ~> (pc # "walking" \/ ~ WalkRunning(walk))
    /\ [][WalkIteration =>
            /\ \/ walk'.pos > walk.pos
               \/ /\ walk.last_exit # <<>>
                  /\ walk'.pos = walk.pos
                  /\ Dist(walk'.row, walk.row) + Dist(walk'.col, walk.col) = 1
            /\ Extends(walk'.coords, walk.coords)
            /\ (walk'.coords # walk.coords) =>
                  Len(walk.coords) = Len(comps[ci].rings[ri])]_vars

\* a walk is over whose coordinate list was extended and in which one
\* iteration did not advance pos: its traversal is the carried-over entry
\* and the next crossing of the same segment, nothing else
WalkOverAfterExtension ==
    /\ pc = "walking"
    /\ ~ WalkRunning(walk)
    /\ ~ walk.threw
    /\ Len(walk.coords) > Len(comps[ci].rings[ri])
    /\ \E key \in DOMAIN walk.cells :
          \E i \in 1 .. Len(walk.cells[key]) :
              /\ Len(walk.cells[key][i].coords) = 2
              /\ traversed(walk.cells[key][i])

====
